---- MODULE Spec2Model ----
(***************************************************************************)
(* A model of the RabbitDashboard pages: the scorecard scoring functions,  *)
(* the live-ops interval bucketing, the HeatData metrics and vehicle       *)
(* allocation, the scorecard quartile / mobility / aggregate steps, the    *)
(* settings save and load cycle, the attendance minute columns and the     *)
(* KPI formatter.                                                          *)
(*                                                                         *)
(* Text is a sequence of one-character strings, so that strip, upper,      *)
(* lower, substring search, formatting and parsing are computed as the     *)
(* code computes them.  Floating values are fixed-point integers; the      *)
(* scale of each is stated where it is introduced.  A float that is        *)
(* undefined or infinite is the value NaN or Inf.                          *)
(*                                                                         *)
(* Each page is a specification of its own (SpecScoring, SpecInterval,     *)
(* ...): a page's Init gives the variables of the other pages their idle   *)
(* values, and its actions leave them unchanged.                           *)
(***************************************************************************)
EXTENDS Integers, Sequences, FiniteSets, TLC

VARIABLES
    page,                 \* which page / component this behaviour runs
    pc,                   \* position of the running script or call
    \* scoring (Scorecard.py, utils/scorecard_utils.py)
    order_weights,        \* the order-weights list (hundredths)
    case_scores,          \* the case score table, rows in file order
    case_list,            \* the record's case list
    mobility_type,        \* the record's mobility class text
    task_score,           \* result of compute_task_score (hundredths)
    row_score,            \* result of compute_score_row (hundredths)
    \* live-ops processing (utils/processing.py)
    created_ts,           \* the bucketing timestamp
    interval,             \* result of calculate_interval
    \* HeatData metrics (pages/01_HeatData.py)
    df_grouped,           \* the filtered snapshot rows
    time_column,          \* "_hour" or "_time_interval"
    agg_df,               \* result of calculate_metrics
    \* HeatData allocation
    period_data,          \* the cells of the selected time bucket
    total_fleet_size,     \* the Total Available Fleet input
    confidence_threshold, \* the Confidence Threshold slider (percent)
    alloc,                \* outcome of the allocation steps
    \* Scorecard page
    quartiles_df,         \* the quartile table read inside the area loop
    agent_score,          \* an agent's total score (hundredths)
    quartile_label,       \* result of get_quartile_label
    mobility_map,         \* result of load_mobility_map
    agent_name,           \* a row's cleaned agent name
    raw_val,              \* a row's cleaned raw vehicle text
    mobility,             \* result of resolve_mobility_for_row
    df_tasks,             \* the uploaded task rows
    agent_choice,         \* Agent filter
    area_choice,          \* Area filter
    case_choice,          \* Case filter
    agent_agg,            \* per (area, agent) aggregate
    area_agg,             \* per area aggregate
    \* Settings page and the order-weights file
    w_edit,               \* the edited order-weights grid
    weights_csv,          \* settings/order_weights.csv: None or its lines
    loaded_weights,       \* result of the Scorecard's load_order_weights
    \* Attendance page
    checkin_hours,        \* Check-in Difference Hours (hundredths of an hour)
    checkin_diff,         \* Total Check In Difference (hundredths of a minute)
    \* KPI cards
    kpi_value,            \* the value handed to fmt
    kpi_text,             \* result of fmt
    \* HeatData page session (pages/01_HeatData.py)
    heatdata,             \* widget values, session cache and last pass of the HeatData page
    \* Live Ops page session (pages/02_LiveOps.py)
    liveops,              \* widget values, session cache and last pass of the Live Ops page
    \* utility loaders (scorecard_utils)
    loaders,              \* the last call of a loader: its name, the file at its path, its outcome
    \* Settings page: mobility mapping
    mobility_settings,    \* mobility.csv, the uploader, the data editor and what the last pass did
    \* Scorecard page: area details loop
    area_render,          \* quartiles.csv, a save of it in progress, and the areas the render pass has banded
    \* HeatData page: allocation heatmap across time periods
    alloc_heatmap,        \* the rows of one time bucket, its allocation as the selected bucket and its heatmap column
    \* HeatData page: filters and aggregation
    heat_filter,          \* the cached dataset, the date filter and the two aggregates of the last pass
    \* Live Ops processing: parse_and_compute_all
    tickets,              \* the rows given to parse_and_compute_all and the rows it returned
    \* Live Ops filters
    live_filter,          \* the dataset of the Live Ops page, the values of its four filter widgets and the filtered rows it renders
    \* HeatData fetch memo
    heat_memo,            \* the memo of fetch_heat_data, the clock, the session cache and what the last Fetch Data click did
    \* Attendance: derived columns
    attendance_row        \* one attendance record and the derived minute columns computed for it

scoringVars == <<order_weights, case_scores, case_list, mobility_type, task_score, row_score>>

intervalVars == <<created_ts, interval>>

metricsVars == <<df_grouped, time_column, agg_df>>

allocVars == <<period_data, total_fleet_size, confidence_threshold, alloc>>

quartileVars == <<quartiles_df, agent_score, quartile_label>>

mobilityVars == <<mobility_map, agent_name, raw_val, mobility>>

aggregateVars == <<df_tasks, agent_choice, area_choice, case_choice, agent_agg, area_agg>>

settingsVars == <<w_edit, weights_csv, loaded_weights>>

attendanceVars == <<checkin_hours, checkin_diff>>

kpiVars == <<kpi_value, kpi_text>>

heatdataVars == <<heatdata>>

liveopsVars == <<liveops>>

loadersVars == <<loaders>>

mobilitySettingsVars == <<mobility_settings>>

areaRenderVars == <<area_render>>

allocHeatmapVars == <<alloc_heatmap>>

heatFilterVars == <<heat_filter>>

ticketsVars == <<tickets>>

liveFilterVars == <<live_filter>>

heatMemoVars == <<heat_memo>>

totalTimeVars == <<attendance_row>>

vars == <<page, pc, scoringVars, intervalVars, metricsVars, allocVars, quartileVars,
          mobilityVars, aggregateVars, settingsVars, attendanceVars, kpiVars,
          heatdataVars,
          liveopsVars,
          loadersVars,
          mobilitySettingsVars,
          areaRenderVars,
          allocHeatmapVars,
          heatFilterVars,
          ticketsVars,
          liveFilterVars,
          heatMemoVars,
          totalTimeVars>>

(***************************************************************************)
(* Generic helpers                                                         *)
(***************************************************************************)
\* An optional value is a sequence: <<>> is None, <<v>> holds v
None == <<>>

Some(v) == <<v>>

Val(opt) == opt[1]

Abs(x) == IF x < 0 THEN -x ELSE x

Min2(a, b) == IF a <= b THEN a ELSE b

\* All sequences over S of length lo..hi
SeqsOf(S, lo, hi) == UNION {[1..n -> S] : n \in lo..hi}

RECURSIVE SumSeq(_)
SumSeq(s) == IF s = <<>> THEN 0 ELSE Head(s) + SumSeq(Tail(s))

(***************************************************************************)
(* Text: Python str operations on sequences of characters                  *)
(***************************************************************************)
UpperChar(c) ==
    CASE c = "a" -> "A" [] c = "b" -> "B" [] c = "c" -> "C" [] c = "d" -> "D"
      [] c = "e" -> "E" [] c = "f" -> "F" [] c = "g" -> "G" [] c = "h" -> "H"
      [] c = "i" -> "I" [] c = "j" -> "J" [] c = "k" -> "K" [] c = "l" -> "L"
      [] c = "m" -> "M" [] c = "n" -> "N" [] c = "o" -> "O" [] c = "p" -> "P"
      [] c = "q" -> "Q" [] c = "r" -> "R" [] c = "s" -> "S" [] c = "t" -> "T"
      [] c = "u" -> "U" [] c = "v" -> "V" [] c = "w" -> "W" [] c = "x" -> "X"
      [] c = "y" -> "Y" [] c = "z" -> "Z"
      [] OTHER -> c

LowerChar(c) ==
    CASE c = "A" -> "a" [] c = "B" -> "b" [] c = "C" -> "c" [] c = "D" -> "d"
      [] c = "E" -> "e" [] c = "F" -> "f" [] c = "G" -> "g" [] c = "H" -> "h"
      [] c = "I" -> "i" [] c = "J" -> "j" [] c = "K" -> "k" [] c = "L" -> "l"
      [] c = "M" -> "m" [] c = "N" -> "n" [] c = "O" -> "o" [] c = "P" -> "p"
      [] c = "Q" -> "q" [] c = "R" -> "r" [] c = "S" -> "s" [] c = "T" -> "t"
      [] c = "U" -> "u" [] c = "V" -> "v" [] c = "W" -> "w" [] c = "X" -> "x"
      [] c = "Y" -> "y" [] c = "Z" -> "z"
      [] OTHER -> c

StrUpper(s) == [i \in 1..Len(s) |-> UpperChar(s[i])]

StrLower(s) == [i \in 1..Len(s) |-> LowerChar(s[i])]

RECURSIVE LStrip(_)
LStrip(s) == IF s # <<>> /\ Head(s) = " " THEN LStrip(Tail(s)) ELSE s

RECURSIVE RStrip(_)
RStrip(s) == IF s # <<>> /\ s[Len(s)] = " " THEN RStrip(SubSeq(s, 1, Len(s) - 1)) ELSE s

StrStrip(s) == RStrip(LStrip(s))

StartsWith(s, p) == Len(s) >= Len(p) /\ SubSeq(s, 1, Len(p)) = p

EndsWith(s, p) == Len(s) >= Len(p) /\ SubSeq(s, Len(s) - Len(p) + 1, Len(s)) = p

\* p in s
Contains(s, p) == \E i \in 1..(Len(s) - Len(p) + 1) : SubSeq(s, i, i + Len(p) - 1) = p

(***************************************************************************)
(* Scoring: compute_task_score (Scorecard page) and compute_score_row      *)
(* (utility library).  Weights are hundredths (1.0 = 100); case scores are *)
(* whole points; a total is in hundredths of a point.                      *)
(***************************************************************************)
MaxWeights == 3
MaxCases == 4

\* Case names a record or a score table can hold
LowBattery == <<"L", "o", "w">>
lowbattery == <<"l", "o", "w">>
OutOfFence == <<"O", "u", "t">>
Bogus == <<"B", "o", "o">>

CaseNames == {LowBattery, lowbattery, Bogus}

\* A case score table as the settings file lists it: one row per case
CaseScoreTable ==
    << [case |-> LowBattery, moto |-> 2, tric |-> 1],
       [case |-> OutOfFence, moto |-> 3, tric |-> 0] >>

WeightValues == {50, 75, 100}

MOTO == <<"M", "O", "T", "O">>
TRIC == <<"T", "R", "I", "C">>

\* order_weights[pos] if pos < len(order_weights) else order_weights[-1]
\* (pos counts from 0, the sequence from 1)
OrderWeightAtFirst(weights, pos) ==
    IF pos < Len(weights) THEN weights[pos + 1] ELSE weights[1]

OrderWeightAt(weights, pos) ==
    IF pos < Len(weights) THEN weights[pos + 1] ELSE weights[Len(weights)]

\* dict.get(key) on the Scorecard table {case: {moto, tric}}: the row or None
DictGet(table, key) ==
    IF \E i \in 1..Len(table) : table[i].case = key
    THEN Some(table[CHOOSE i \in 1..Len(table) : table[i].case = key])
    ELSE None

\* the loop over case_scores.keys(): the first key equal ignoring case
FallbackLookup(table, key) ==
    LET hits == {i \in 1..Len(table) : StrLower(StrStrip(table[i].case)) = StrLower(key)}
    IN  IF hits = {} THEN None
        ELSE Some(table[CHOOSE i \in hits : \A j \in hits : i <= j])

\* mobility_key of compute_task_score
MobilityKey(mob) ==
    IF StartsWith(StrLower(StrStrip(mob)), <<"t", "r">>) THEN "tric" ELSE "moto"

\* what one case adds to the total in compute_task_score
TaskCaseTerm(table, weights, mob, pos, case_name) ==
    IF StrStrip(case_name) = <<>> THEN 0
    ELSE LET weight == OrderWeightAt(weights, pos)
             key == StrStrip(case_name)
             exact == DictGet(table, key)
             lookup == IF exact = None THEN FallbackLookup(table, key) ELSE exact
         IN  IF lookup = None THEN 0
             ELSE (IF MobilityKey(mob) = "tric" THEN Val(lookup).tric ELSE Val(lookup).moto) * weight

\* the for loop of compute_task_score from position pos on
RECURSIVE TaskScoreFrom(_, _, _, _, _)
TaskScoreFrom(table, weights, mob, cases, pos) ==
    IF pos >= Len(cases) THEN 0
    ELSE TaskCaseTerm(table, weights, mob, pos, cases[pos + 1])
         + TaskScoreFrom(table, weights, mob, cases, pos + 1)

compute_task_score(cases, mob, table, weights) ==
    TaskScoreFrom(table, weights, mob, cases, 0)

\* load_case_scores of the utility library: {MOBILITY: {case: score}}
UtilCaseScores(table) ==
    [m \in {MOTO, TRIC} |->
        [c \in {table[i].case : i \in 1..Len(table)} |->
            LET r == Val(DictGet(table, c)) IN IF m = TRIC THEN r.tric ELSE r.moto]]

\* case_scores.get(m, {}).get(case, 0)
RowCaseScore(util_scores, m, case) ==
    IF m \in DOMAIN util_scores
    THEN (IF case \in DOMAIN util_scores[m] THEN util_scores[m][case] ELSE 0)
    ELSE 0

\* the for loop of compute_score_row from index idx on
RECURSIVE RowScoreFrom(_, _, _, _, _)
RowScoreFrom(util_scores, weights, m, cases, idx) ==
    IF idx >= Len(cases) THEN 0
    ELSE OrderWeightAt(weights, idx) * RowCaseScore(util_scores, m, cases[idx + 1])
         + RowScoreFrom(util_scores, weights, m, cases, idx + 1)

compute_score_row(cases, mob, util_scores, weights) ==
    RowScoreFrom(util_scores, weights, StrUpper(mob), cases, 0)

(***************************************************************************)
(* Live-ops processing: calculate_interval.  A timestamp is a record of    *)
(* its calendar fields; normalize() drops the time of day.                 *)
(***************************************************************************)
\* pd.Timestamp('2025-04-25')
cutoff == [year |-> 2025, month |-> 4, day |-> 25, hour |-> 0]

\* Timestamp.normalize(): midnight of the same calendar day
Normalize(ts) == [ts EXCEPT !.hour = 0]

\* a >= b on timestamps
TsGE(a, b) ==
    \/ a.year > b.year
    \/ a.year = b.year /\ a.month > b.month
    \/ a.year = b.year /\ a.month = b.month /\ a.day > b.day
    \/ a.year = b.year /\ a.month = b.month /\ a.day = b.day /\ a.hour >= b.hour

\* a > b on timestamps
TsGT(a, b) == TsGE(a, b) /\ a # b

calculate_interval_strict(ts) ==
    LET hour == ts.hour
    IN  IF TsGT(Normalize(ts), Normalize(cutoff))
        THEN (IF hour < 21 THEN hour + 3 ELSE hour - 21)
        ELSE (IF hour < 22 THEN hour + 2 ELSE hour - 22)

calculate_interval(ts) ==
    LET hour == ts.hour
    IN  IF TsGE(Normalize(ts), Normalize(cutoff))
        THEN (IF hour < 21 THEN hour + 3 ELSE hour - 21)
        ELSE (IF hour < 22 THEN hour + 2 ELSE hour - 22)

\* Calendar fields the timestamps of the model are drawn from
TsYears == {2024, 2025, 2026}
TsMonths == {3, 4, 5}
TsDays == {1, 24, 25, 26}
TsHours == 0..23

(***************************************************************************)
(* Attendance page: calculate_check_in_diff.  Hours are hundredths of an   *)
(* hour, so hours * 60 is hundredths of a minute.                          *)
(***************************************************************************)
MaxHours == 60



\* the grace period, in minutes
GraceMinutes == 15

calculate_check_in_diff_strict(hours_diff) ==
    IF hours_diff >= 0 THEN 0
    ELSE LET minutes_late == Abs(hours_diff) * 60
         IN  IF minutes_late < GraceMinutes * 100 THEN 0 ELSE minutes_late

calculate_check_in_diff(hours_diff) ==
    IF hours_diff >= 0 THEN 0
    ELSE LET minutes_late == Abs(hours_diff) * 60
         IN  IF minutes_late <= GraceMinutes * 100 THEN 0 ELSE minutes_late

(***************************************************************************)
(* KPI cards: fmt.  A float value is a whole number of thousandths; the    *)
(* values of the model are chosen so that no decimal tie is decided by the *)
(* binary representation of the float.                                     *)
(***************************************************************************)
DigitChar(d) ==
    CASE d = 0 -> "0" [] d = 1 -> "1" [] d = 2 -> "2" [] d = 3 -> "3" [] d = 4 -> "4"
      [] d = 5 -> "5" [] d = 6 -> "6" [] d = 7 -> "7" [] d = 8 -> "8" [] d = 9 -> "9"

DigitOf(c) ==
    CASE c = "0" -> 0 [] c = "1" -> 1 [] c = "2" -> 2 [] c = "3" -> 3 [] c = "4" -> 4
      [] c = "5" -> 5 [] c = "6" -> 6 [] c = "7" -> 7 [] c = "8" -> 8 [] c = "9" -> 9

IsDigit(c) == c \in {"0", "1", "2", "3", "4", "5", "6", "7", "8", "9"}

\* str(n) for n >= 0
RECURSIVE NatToStr(_)
NatToStr(n) == IF n < 10 THEN <<DigitChar(n)>> ELSE NatToStr(n \div 10) \o <<DigitChar(n % 10)>>

\* str(n) for an int
IntToStr(n) == IF n < 0 THEN <<"-">> \o NatToStr(-n) ELSE NatToStr(n)

RECURSIVE Pow10(_)
Pow10(k) == IF k = 0 THEN 1 ELSE 10 * Pow10(k - 1)

\* n >= 0 as exactly width digits
RECURSIVE ZeroPad(_, _)
ZeroPad(n, width) == IF width = 0 THEN <<>> ELSE ZeroPad(n \div 10, width - 1) \o <<DigitChar(n % 10)>>

\* num / den >= 0 rounded to the nearest integer, ties to even
RoundHalfEven(num, den) ==
    LET q == num \div den
        r == num % den
    IN  IF 2 * r < den THEN q
        ELSE IF 2 * r > den THEN q + 1
        ELSE IF q % 2 = 0 THEN q ELSE q + 1

\* f"{num/den:.<decimals>f}": the sign of the value, the rounded digits
FormatFixed(num, den, decimals) ==
    LET scaled == RoundHalfEven(Abs(num) * Pow10(decimals), den)
    IN  (IF num < 0 THEN <<"-">> ELSE <<>>)
        \o NatToStr(scaled \div Pow10(decimals))
        \o <<".">> \o ZeroPad(scaled % Pow10(decimals), decimals)

\* Values handed to fmt: None, NaN, a float or an int (in thousandths)
KpiNone == [kind |-> "none", milli |-> 0]
KpiNaN == [kind |-> "nan", milli |-> 0]
KpiFloat(n) == [kind |-> "float", milli |-> n]
KpiInt(n) == [kind |-> "int", milli |-> n * 1000]

\* fmt with the threshold test after rounding to two decimals
fmt_rounded(x) ==
    IF x.kind \in {"none", "nan"} THEN <<"0">>
    ELSE IF RoundHalfEven(Abs(x.milli), 10) >= 1000 * 100
         THEN FormatFixed(x.milli, 1000 * 1000, 1) \o <<"K">>
    ELSE IF x.kind = "float"
         THEN LET s == FormatFixed(x.milli, 1000, 2)
              IN  IF EndsWith(s, <<".", "0", "0">>) THEN SubSeq(s, 1, Len(s) - 3) ELSE s
    ELSE IntToStr(x.milli \div 1000)

\* fmt without the two-decimal branch of floats below 1000
fmt_plain(x) ==
    IF x.kind \in {"none", "nan"} THEN <<"0">>
    ELSE IF Abs(x.milli) >= 1000 * 1000
         THEN FormatFixed(x.milli, 1000 * 1000, 1) \o <<"K">>
    ELSE IF x.kind = "float" THEN FormatFixed(x.milli, 1000, 2)
    ELSE IntToStr(x.milli \div 1000)

fmt(x) ==
    IF x.kind \in {"none", "nan"} THEN <<"0">>
    ELSE IF Abs(x.milli) >= 1000 * 1000
         THEN FormatFixed(x.milli, 1000 * 1000, 1) \o <<"K">>
    ELSE IF x.kind = "float"
         THEN LET s == FormatFixed(x.milli, 1000, 2)
              IN  IF EndsWith(s, <<".", "0", "0">>) THEN SubSeq(s, 1, Len(s) - 3) ELSE s
    ELSE IntToStr(x.milli \div 1000)

\* Whole parts and thousandths the float values of the model are built from
KpiWholes == {0, 1, 4, 12, 999, 1000, 1250, 1500, 2345}
KpiFracs == {0, 4, 6, 125, 250, 254, 256, 500, 994, 996, 999}

KpiValues ==
    {KpiNone, KpiNaN}
    \cup {KpiFloat(sg * (w * 1000 + f)) : sg \in {1, -1}, w \in KpiWholes, f \in KpiFracs}
    \cup {KpiInt(sg * w) : sg \in {1, -1}, w \in KpiWholes}

(***************************************************************************)
(* Floats of the HeatData page.  A float is a record: a finite value is    *)
(* the fraction n / d in lowest terms (d > 0), and NaN and the infinities  *)
(* are values of their own, as numpy computes them.                        *)
(***************************************************************************)
RECURSIVE Gcd(_, _)
Gcd(a, b) == IF b = 0 THEN a ELSE Gcd(b, a % b)

FNaN == [k |-> "nan", n |-> 0, d |-> 1]

FInf(sign) == [k |-> "inf", n |-> sign, d |-> 1]

\* the finite float num / den, den # 0
Frac(num, den) ==
    LET g == Gcd(Abs(num), Abs(den))
        s == IF den < 0 THEN -1 ELSE 1
    IN  [k |-> "num", n |-> s * (num \div g), d |-> s * (den \div g)]

FInt(i) == [k |-> "num", n |-> i, d |-> 1]

FZero == FInt(0)

IsFinite(a) == a.k = "num"

Sign(i) == IF i > 0 THEN 1 ELSE IF i < 0 THEN -1 ELSE 0

FAdd(a, b) ==
    IF a.k = "nan" \/ b.k = "nan" THEN FNaN
    ELSE IF a.k = "inf" /\ b.k = "inf" THEN (IF a.n = b.n THEN a ELSE FNaN)
    ELSE IF a.k = "inf" THEN a
    ELSE IF b.k = "inf" THEN b
    ELSE Frac(a.n * b.d + b.n * a.d, a.d * b.d)

FMul(a, b) ==
    IF a.k = "nan" \/ b.k = "nan" THEN FNaN
    ELSE IF a.k = "inf" \/ b.k = "inf"
         THEN (IF a.n = 0 \/ b.n = 0 THEN FNaN ELSE FInf(Sign(a.n) * Sign(b.n)))
    ELSE Frac(a.n * b.n, a.d * b.d)

\* a / b as numpy divides: x / 0 is an infinity, 0 / 0 is NaN
FDiv(a, b) ==
    IF a.k = "nan" \/ b.k = "nan" THEN FNaN
    ELSE IF a.k = "inf" THEN (IF b.k = "inf" THEN FNaN ELSE FInf(IF b.n < 0 THEN -a.n ELSE a.n))
    ELSE IF b.k = "inf" THEN FZero
    ELSE IF b.n = 0 THEN (IF a.n = 0 THEN FNaN ELSE FInf(Sign(a.n)))
    ELSE Frac(a.n * b.d, a.d * b.n)

\* a > b; a comparison with NaN is False
FGt(a, b) ==
    IF a.k = "nan" \/ b.k = "nan" THEN FALSE
    ELSE IF a.k = "inf" THEN a.n > 0 /\ ~(b.k = "inf" /\ b.n > 0)
    ELSE IF b.k = "inf" THEN b.n < 0
    ELSE a.n * b.d > b.n * a.d

FEq(a, b) == a.k # "nan" /\ b.k # "nan" /\ a = b

FGe(a, b) == FGt(a, b) \/ FEq(a, b)

\* numpy.floor of a finite float
FFloor(a) == a.n \div a.d

\* Series.max() and Series.sum() of finite floats (s is not empty)
RECURSIVE FMaxSeq(_)
FMaxSeq(s) ==
    IF Len(s) = 1 THEN s[1]
    ELSE LET m == FMaxSeq(Tail(s)) IN IF FGt(Head(s), m) THEN Head(s) ELSE m

\* Series.sum(): missing values are skipped
RECURSIVE FSumSkipNa(_)
FSumSkipNa(s) ==
    IF s = <<>> THEN FZero
    ELSE IF Head(s).k = "nan" THEN FSumSkipNa(Tail(s))
    ELSE FAdd(Head(s), FSumSkipNa(Tail(s)))

\* the number of values of s that are smaller than s[i], ties by position
RankIn(s, i) ==
    Cardinality({j \in 1..Len(s) : FGt(s[i], s[j]) \/ (FEq(s[i], s[j]) /\ j < i)})

\* s sorted ascending
SortedF(s) == [r \in 1..Len(s) |-> s[CHOOSE i \in 1..Len(s) : RankIn(s, i) = r - 1]]

\* Series.median() of finite floats (s is not empty)
FMedian(s) ==
    LET t == SortedF(s)
        m == Len(s)
    IN  IF m % 2 = 1 THEN t[(m + 1) \div 2]
        ELSE FDiv(FAdd(t[m \div 2], t[m \div 2 + 1]), FInt(2))

(***************************************************************************)
(* HeatData page: process_data columns and calculate_metrics               *)
(***************************************************************************)
\* "Start Date - Local" after to_datetime(errors="coerce")
NaT == [nat |-> TRUE, day |-> 0, hour |-> 0]

Stamp(day, hour) == [nat |-> FALSE, day |-> day, hour |-> hour]

MorningPeak == "Morning Peak (6a-12p)"
AfternoonPeak == "Afternoon Peak (12p-6p)"
EveningNight == "Evening/Night (6p-6a)"

\* get_time_interval; hour is None for a missing hour (NaN), whose
\* comparisons are all False
get_time_interval(hour) ==
    IF hour # None /\ 6 <= Val(hour) /\ Val(hour) <= 11 THEN MorningPeak
    ELSE IF hour # None /\ 12 <= Val(hour) /\ Val(hour) <= 17 THEN AfternoonPeak
    ELSE EveningNight

\* df["Start Date - Local"].dt.hour
HourOf(start) == IF start.nat THEN None ELSE Some(start.hour)

\* A time bucket: the value of the grouping column of one row
HourBucket(h) == [h |-> h, iv |-> ""]

IntervalBucket(name) == [h |-> -1, iv |-> name]

\* the value of time_column in a row, None when it is missing
BucketOf(row, column) ==
    IF column = "_hour"
    THEN (IF row.start.nat THEN None ELSE Some(HourBucket(row.start.hour)))
    ELSE Some(IntervalBucket(get_time_interval(HourOf(row.start))))

\* groupby sorts its keys: neighborhoods by name, hours by number,
\* interval names as text
Neighborhoods == <<"N1", "N2", "N3", "N4">>

BucketsSorted(column) ==
    IF column = "_hour" THEN [i \in 1..24 |-> HourBucket(i - 1)]
    ELSE <<IntervalBucket(AfternoonPeak), IntervalBucket(EveningNight), IntervalBucket(MorningPeak)>>

\* sum of a column over the rows at the positions idx
RECURSIVE SumOver(_, _, _)
SumOver(rows, idx, col) ==
    IF idx = {} THEN 0
    ELSE LET i == CHOOSE j \in idx : TRUE
         IN  (CASE col = "Sessions" -> rows[i].Sessions
                [] col = "Rides" -> rows[i].Rides
                [] col = "Active Vehicles" -> rows[i].Active
                [] col = "Urgent Vehicles" -> rows[i].Urgent)
             + SumOver(rows, idx \ {i}, col)

\* numpy.where(cond, value, 0): both branches are computed, one is picked
Where(cond, value) == IF cond THEN value ELSE FZero

\* the derived columns of one aggregated cell, without the zero guards
MetricsOfUnguarded(hood, bucket, sessions, active, urgent, rides, snapshots) ==
    LET active_avg == FDiv(FInt(active), FInt(snapshots))
    IN  [Neighborhood |-> hood, bucket |-> bucket,
         Sessions |-> sessions, Active |-> active, Urgent |-> urgent, Rides |-> rides,
         Snapshots |-> snapshots,
         FulfillmentRate |-> FDiv(FInt(rides), FInt(sessions)),
         MissedOpportunity |-> sessions - rides,
         ActiveAvg |-> active_avg,
         UrgentAvg |-> FDiv(FInt(urgent), FInt(snapshots)),
         Utilization |-> FDiv(FInt(rides), active_avg)]

\* the derived columns of one aggregated cell
MetricsOf(hood, bucket, sessions, active, urgent, rides, snapshots) ==
    LET active_avg == Where(snapshots > 0, FDiv(FInt(active), FInt(snapshots)))
        util == Where(FGt(active_avg, FZero), FDiv(FInt(rides), active_avg))
    IN  [Neighborhood |-> hood, bucket |-> bucket,
         Sessions |-> sessions, Active |-> active, Urgent |-> urgent, Rides |-> rides,
         Snapshots |-> snapshots,
         FulfillmentRate |-> Where(sessions > 0, FDiv(FInt(rides), FInt(sessions))),
         MissedOpportunity |-> sessions - rides,
         ActiveAvg |-> active_avg,
         UrgentAvg |-> Where(snapshots > 0, FDiv(FInt(urgent), FInt(snapshots))),
         \* .replace([nan, inf], 0)
         Utilization |-> IF util.k = "nan" \/ (util.k = "inf" /\ util.n > 0) THEN FZero ELSE util]

\* one group of the groupby: the rows of a neighborhood and bucket
GroupRows(rows, hood, bucket, column) ==
    {i \in 1..Len(rows) : rows[i].Neighborhood = hood /\ BucketOf(rows[i], column) = Some(bucket)}

\* the aggregated cell of one group
CellOf(rows, hood, bucket, column) ==
    LET idx == GroupRows(rows, hood, bucket, column)
    IN  MetricsOf(hood, bucket,
                  SumOver(rows, idx, "Sessions"), SumOver(rows, idx, "Active Vehicles"),
                  SumOver(rows, idx, "Urgent Vehicles"), SumOver(rows, idx, "Rides"),
                  \* nunique: distinct timestamps, missing ones not counted
                  Cardinality({rows[i].start : i \in {j \in idx : ~rows[j].start.nat}}))

\* the group keys in key order, first by neighborhood, then by bucket
GroupKeys(column) ==
    LET nb == Len(BucketsSorted(column))
    IN  [k \in 1..(Len(Neighborhoods) * nb) |->
            [hood |-> Neighborhoods[((k - 1) \div nb) + 1],
             bucket |-> BucketsSorted(column)[((k - 1) % nb) + 1]]]

\* one aggregated cell per group that has rows
CellsFrom(rows, column) ==
    LET present == SelectSeq(GroupKeys(column),
                             LAMBDA g : GroupRows(rows, g.hood, g.bucket, column) # {})
    IN  [k \in 1..Len(present) |-> CellOf(rows, present[k].hood, present[k].bucket, column)]

calculate_metrics(rows, column) == CellsFrom(rows, column)

\* Snapshot rows the uploaded data of the model is made of
SnapshotRow(hood, start, sessions, rides, active, urgent) ==
    [Neighborhood |-> hood, start |-> start, Sessions |-> sessions, Rides |-> rides,
     Active |-> active, Urgent |-> urgent]

SampleRows ==
    { SnapshotRow("N1", Stamp(1, 7), 2, 1, 3, 1),
      SnapshotRow("N1", Stamp(2, 7), 0, 0, 0, 0),
      SnapshotRow("N1", NaT, 1, 0, 2, 0),
      SnapshotRow("N2", Stamp(1, 7), 0, 0, 1, 1),
      SnapshotRow("N2", Stamp(1, 20), 3, 3, 0, 2),
      SnapshotRow("N2", NaT, 0, 1, 0, 0) }

MaxRows == 3

(***************************************************************************)
(* HeatData page: the Smart Vehicle Allocation Model, steps 1 to 8, on the *)
(* cells of the selected time bucket.  The quotients are exact fractions.  *)
(***************************************************************************)
MaxHoods == 2
MaxFleet == 3

\* Step 2: Reliability_Score
ReliabilityScore(cell, threshold) ==
    IF FGe(cell.FulfillmentRate, Frac(threshold, 100))
    THEN FMul(cell.FulfillmentRate, FInt(100))
    ELSE FMul(cell.FulfillmentRate, FInt(50))

\* Step 3: Current_Efficiency
CurrentEfficiency(cell) ==
    Where(FGt(cell.ActiveAvg, FZero), FDiv(FInt(cell.Rides), cell.ActiveAvg))

\* Step 4: Demand_Density
DemandDensity(cell) ==
    IF FGt(cell.ActiveAvg, FZero) THEN FDiv(FInt(cell.Sessions), cell.ActiveAvg)
    ELSE FInt(cell.Sessions)

\* Step 5: Growth_Potential, given the median of Demand_Density
GrowthPotential(cell, median, threshold) ==
    IF /\ FGt(DemandDensity(cell), median)
       /\ FGe(cell.FulfillmentRate, Frac(threshold, 100))
    THEN FMul(FInt(cell.MissedOpportunity), Frac(3, 2))
    ELSE FInt(cell.MissedOpportunity)

\* Step 6: Allocation_Score of every cell
AllocationScore(cells, threshold) ==
    LET m == Len(cells)
        median == FMedian([j \in 1..m |-> DemandDensity(cells[j])])
        demand_max == FMaxSeq([j \in 1..m |-> FInt(cells[j].Sessions)])
        unmet_max == FMaxSeq([j \in 1..m |-> FInt(cells[j].MissedOpportunity)])
        growth_max == FMaxSeq([j \in 1..m |-> GrowthPotential(cells[j], median, threshold)])
    IN  [j \in 1..m |->
            FAdd(FAdd(FMul(FDiv(FInt(cells[j].Sessions), demand_max), FInt(40)),
                      FMul(FDiv(ReliabilityScore(cells[j], threshold), FInt(100)), FInt(25))),
                 FAdd(FMul(FDiv(FInt(cells[j].MissedOpportunity), unmet_max), FInt(20)),
                      FMul(FDiv(GrowthPotential(cells[j], median, threshold), growth_max), FInt(15))))]

\* Step 7 before the cast: Allocation_Score / total_score * total_fleet_size
Shares(scores, fleet) ==
    LET total_score == FSumSkipNa(scores)
    IN  [j \in 1..Len(scores) |-> FMul(FDiv(scores[j], total_score), FInt(fleet))]

\* nlargest(n, "Allocation_Score").index: the n largest, ties by row order
NLargest(scores, n) ==
    {i \in 1..Len(scores) :
        Cardinality({j \in 1..Len(scores) :
            FGt(scores[j], scores[i]) \/ (FEq(scores[j], scores[i]) /\ j < i)}) < n}

\* Step 8: one more vehicle for each of the highest-scoring cells
DistributeRemaining(floors, scores, fleet) ==
    LET remaining == fleet - SumSeq(floors)
    IN  IF remaining > 0
        THEN [j \in 1..Len(floors) |->
                IF j \in NLargest(scores, remaining) THEN floors[j] + 1 ELSE floors[j]]
        ELSE floors

\* Series.clip(lower, upper) of a finite float: the lower bound is applied
\* first, the upper bound after it
FClip(a, lower, upper) ==
    LET raised == IF FGt(lower, a) THEN lower ELSE a
    IN  IF FGt(raised, upper) THEN upper ELSE raised

\* Step 9 without the upper bound of the clip
ExpectedNewRidesUncapped(cell, recommended) ==
    LET change == FAdd(FInt(recommended), FMul(FInt(-1), cell.ActiveAvg))
    IN  Where(FGt(FInt(recommended), cell.ActiveAvg),
              FClip(FMul(change, CurrentEfficiency(cell)), FZero, FMul(change, CurrentEfficiency(cell))))

\* Step 9: Expected_New_Rides of one cell
ExpectedNewRides(cell, recommended) ==
    LET change == FAdd(FInt(recommended), FMul(FInt(-1), cell.ActiveAvg))
    IN  Where(FGt(FInt(recommended), cell.ActiveAvg),
              FClip(FMul(change, CurrentEfficiency(cell)), FZero, FInt(cell.MissedOpportunity)))

\* Steps 6 to 9.  astype(int) raises on a NaN or infinite share, and the
\* script stops there.
Allocate(cells, fleet, threshold) ==
    LET scores == AllocationScore(cells, threshold)
        shares == Shares(scores, fleet)
    IN  IF \E j \in 1..Len(shares) : ~IsFinite(shares[j])
        THEN [status |-> "raised", Allocation_Score |-> scores, Recommended_Vehicles |-> <<>>,
              Expected_New_Rides |-> <<>>]
        ELSE LET recommended ==
                     DistributeRemaining([j \in 1..Len(shares) |-> FFloor(shares[j])], scores, fleet)
             IN  [status |-> "done", Allocation_Score |-> scores,
                  Recommended_Vehicles |-> recommended,
                  Expected_New_Rides |->
                      [j \in 1..Len(cells) |-> ExpectedNewRides(cells[j], recommended[j])]]

NotAllocated ==
    [status |-> "none", Allocation_Score |-> <<>>, Recommended_Vehicles |-> <<>>,
     Expected_New_Rides |-> <<>>]

\* Sessions, rides and average active vehicles of the cells of the model
CellSessions == {0, 1, 2}
CellActive == {0, 1}

\* the cells one neighborhood can have in the selected bucket
CellsOfHood(hood, bucket) ==
    {MetricsOf(hood, bucket, sr[1], a, 0, sr[2], 1) :
        sr \in {x \in CellSessions \X CellSessions : x[2] <= x[1]}, a \in CellActive}

\* the selected bucket's rows: one cell per neighborhood, in name order
RECURSIVE PeriodDatasOfLen(_, _)
PeriodDatasOfLen(bucket, m) ==
    IF m = 0 THEN {<<>>}
    ELSE {Append(p, c) : p \in PeriodDatasOfLen(bucket, m - 1), c \in CellsOfHood(Neighborhoods[m], bucket)}

PeriodDatas(bucket) == UNION {PeriodDatasOfLen(bucket, m) : m \in 1..MaxHoods}


(***************************************************************************)
(* Scorecard page: get_quartile_label.  A table cell is text, a number     *)
(* (hundredths) or missing (NaN), as read_csv types it.                    *)
(***************************************************************************)
TextCell(s) == [t |-> "str", s |-> s, n |-> 0]

NumCell(n) == [t |-> "num", s |-> <<>>, n |-> n]

NanCell == [t |-> "nan", s |-> <<>>, n |-> 0]

\* str(cell)
StrOfCell(cell) ==
    IF cell.t = "str" THEN cell.s
    ELSE IF cell.t = "nan" THEN <<"n", "a", "n">>
    ELSE IntToStr(cell.n \div 100)

\* the separator " - " of the label (an en dash in the source)
DashSep == <<" ", "-", " ">>

Unassigned == <<"U", "n", "a", "s", "s", "i", "g", "n", "e", "d">>

\* float(row["min"]) <= float(score) <= float(row["max"]); float() of text
\* raises, a comparison with NaN is False
BandContains(band, score) ==
    /\ band.min.t = "num" /\ band.max.t = "num"
    /\ band.min.n <= score /\ score <= band.max.n

\* the try block of one band raises: float() of a text bound, or the
\* concatenation of a quartile that is not text with the separator
BandRaises(band, score) ==
    \/ band.min.t = "str"
    \/ band.min.t = "num" /\ band.min.n <= score /\ band.max.t = "str"
    \/ BandContains(band, score) /\ band.quartile.t # "str"

\* the loop of get_quartile_label from row i on
RECURSIVE QuartileLabelFrom(_, _, _)
QuartileLabelFrom(table, score, i) ==
    IF i > Len(table) THEN Unassigned
    ELSE IF BandRaises(table[i], score) THEN QuartileLabelFrom(table, score, i + 1)
    ELSE IF BandContains(table[i], score)
         THEN table[i].quartile.s \o DashSep \o StrOfCell(table[i].label)
    ELSE QuartileLabelFrom(table, score, i + 1)

get_quartile_label(score, table) == QuartileLabelFrom(table, score, 1)

Band(quartile, min, max, label) == [quartile |-> quartile, min |-> min, max |-> max, label |-> label]

LowPerformer == <<"L", "o", "w", " ", "P", "e", "r", "f", "o", "r", "m", "e", "r">>
MidPerformer == <<"M", "i", "d", " ", "P", "e", "r", "f", "o", "r", "m", "e", "r">>
UpperMidPerformer == <<"U", "p", "p", "e", "r", "-", "M", "i", "d", " ", "P", "e", "r", "f", "o", "r", "m", "e", "r">>
HighPerformer == <<"H", "i", "g", "h", " ", "P", "e", "r", "f", "o", "r", "m", "e", "r">>

DEFAULT_QUARTILES ==
    << Band(TextCell(<<"Q", "1">>), NumCell(600), NumCell(2600), TextCell(LowPerformer)),
       Band(TextCell(<<"Q", "2">>), NumCell(2700), NumCell(4700), TextCell(MidPerformer)),
       Band(TextCell(<<"Q", "3">>), NumCell(4800), NumCell(6800), TextCell(UpperMidPerformer)),
       Band(TextCell(<<"Q", "4">>), NumCell(6900), NumCell(9000), TextCell(HighPerformer)) >>

\* quartiles.csv with overlapping bands that are not in ascending order
OverlappingQuartiles ==
    << Band(TextCell(<<"Q", "2">>), NumCell(2700), NumCell(6000), TextCell(MidPerformer)),
       Band(TextCell(<<"Q", "1">>), NumCell(0), NumCell(3000), TextCell(LowPerformer)),
       Band(TextCell(<<"Q", "3">>), NumCell(5000), NumCell(9000), NanCell) >>

\* quartiles.csv with a band whose bounds are missing or text
BrokenBoundQuartiles ==
    << Band(TextCell(<<"Q", "1">>), NanCell, NumCell(2600), TextCell(LowPerformer)),
       Band(TextCell(<<"Q", "2">>), NumCell(2700), TextCell(<<"x">>), TextCell(MidPerformer)),
       Band(TextCell(<<"Q", "3">>), NumCell(0), NumCell(9000), TextCell(UpperMidPerformer)) >>

\* quartiles.csv whose quartile column holds the numbers 1 and 2, and an
\* added band whose quartile cell was left empty
NumberedQuartiles ==
    << Band(NumCell(100), NumCell(600), NumCell(2600), TextCell(LowPerformer)),
       Band(NanCell, NumCell(2700), NumCell(4700), TextCell(MidPerformer)),
       Band(TextCell(<<"Q", "3">>), NumCell(4000), NumCell(9000), TextCell(UpperMidPerformer)) >>

QuartileTables == {DEFAULT_QUARTILES, OverlappingQuartiles, BrokenBoundQuartiles, NumberedQuartiles}

\* agent scores: every half point from 0 to MaxScore points
MaxScore == 100

AgentScores == {50 * h : h \in 0..(2 * MaxScore)}

(***************************************************************************)
(* Scorecard page: resolve_mobility_for_row.  The mobility map is a        *)
(* function from the agents that have an entry to the entry's text.        *)
(***************************************************************************)
\* mobility_map.get(agent_name)
MapGet(map, agent) == IF agent \in DOMAIN map THEN Some(map[agent]) ELSE None

\* the raw vehicle text decides before the settings map
resolve_mobility_raw_first(agent, raw, map) ==
    LET v == StrUpper(raw)
        m == MapGet(map, agent)
    IN  IF Contains(v, <<"T", "R", "I", "C">>) \/ Contains(v, <<"T", "R", "I">>) THEN TRIC
        ELSE IF m # None /\ Val(m) # <<>>
             THEN (IF Contains(StrUpper(StrStrip(Val(m))), <<"T", "R", "I", "C">>)
                      \/ StartsWith(StrUpper(StrStrip(Val(m))), <<"T", "R">>) THEN TRIC ELSE MOTO)
        ELSE MOTO

resolve_mobility_for_row(agent, raw, map) ==
    LET m == MapGet(map, agent)
    IN  IF m # None /\ Val(m) # <<>>
        THEN LET mm == StrUpper(StrStrip(Val(m)))
             IN  IF Contains(mm, <<"T", "R", "I", "C">>) \/ StartsWith(mm, <<"T", "R">>) THEN TRIC ELSE MOTO
        ELSE LET v == StrUpper(raw)
             IN  IF Contains(v, <<"T", "R", "I", "C">>) \/ Contains(v, <<"T", "R", "I">>) THEN TRIC
                 ELSE IF Contains(v, <<"M", "O", "T", "O">>) \/ Contains(v, <<"M", "O", "T">>) \/ Contains(v, <<"B", "I", "K", "E">>) THEN MOTO
                 ELSE MOTO

AgentNames == <<"ali", "sara">>

\* texts of the mobility column of mobility.csv
MobilityEntries ==
    { <<"T", "r", "i", "c", "y", "c", "l", "e">>, <<"t", "r">>, <<" ", "T", "r", "i", "k", "e">>, <<"M", "o", "t", "o">>, <<"n", "a", "n">>, <<" ", " ">> }

\* texts of a row's raw vehicle column, cleaned
RawTexts ==
    { <<>>, <<"e", "-", "b", "i", "k", "e">>, <<"t", "r", "i", "c", "y", "c", "l", "e">>, <<"t", "r">>, <<"M", "O", "T", "O">> }

MobilityMaps ==
    UNION {[D -> MobilityEntries] : D \in SUBSET {AgentNames[i] : i \in 1..Len(AgentNames)}}

(***************************************************************************)
(* Scorecard page: the agent and area aggregates of the filtered           *)
(* successful rows.  Group keys come out in sorted order.                  *)
(***************************************************************************)
MaxTasks == 3

AreaNames == <<"Cairo", "Giza">>

\* "All" of the case selectbox
AllCases == <<"A", "l", "l">>

DEFAULT_ORDER_WEIGHTS == <<100, 75, 50, 25, 25, 25, 25>>

TaskRow(area, agent, cases, mob, success) ==
    [area |-> area, agent |-> agent, cases |-> cases, mob |-> mob, is_success |-> success]

\* Rows of the uploaded export, after cleaning and mobility resolution
SampleTasks ==
    { TaskRow("Cairo", "ali", <<LowBattery>>, MOTO, TRUE),
      TaskRow("Cairo", "ali", <<OutOfFence, LowBattery>>, MOTO, TRUE),
      TaskRow("Cairo", "sara", <<LowBattery, Bogus>>, TRIC, TRUE),
      TaskRow("Giza", "ali", <<OutOfFence>>, MOTO, TRUE),
      TaskRow("Giza", "sara", <<>>, MOTO, TRUE),
      TaskRow("Giza", "sara", <<OutOfFence, OutOfFence>>, MOTO, FALSE) }

\* df_success after the three UI filters
FilterSuccess(rows, agent_c, area_c, case_c) ==
    LET Keep(r) ==
            /\ r.is_success
            /\ (agent_c # "All" => r.agent = agent_c)
            /\ (area_c # "All" => r.area = area_c)
            /\ (case_c # AllCases => \E i \in 1..Len(r.cases) : r.cases[i] = case_c)
    IN  SelectSeq(rows, Keep)

\* the _task_score column
TaskScores(rows) ==
    [i \in 1..Len(rows) |->
        compute_task_score(rows[i].cases, rows[i].mob, CaseScoreTable, DEFAULT_ORDER_WEIGHTS)]

\* sum and count of _task_score over the rows of one (area, agent) group
RECURSIVE GroupTotal(_, _, _, _, _)
GroupTotal(rows, scores, area, agent, i) ==
    IF i > Len(rows) THEN [total_score |-> 0, tasks |-> 0]
    ELSE LET rest == GroupTotal(rows, scores, area, agent, i + 1)
         IN  IF rows[i].area = area /\ rows[i].agent = agent
             THEN [total_score |-> scores[i] + rest.total_score, tasks |-> 1 + rest.tasks]
             ELSE rest

\* agent_agg: groupby(["_area_clean", "_agent_clean"]) in key order
RECURSIVE AgentAggFrom(_, _, _, _)
AgentAggFrom(rows, scores, a, g) ==
    IF a > Len(AreaNames) THEN <<>>
    ELSE IF g > Len(AgentNames) THEN AgentAggFrom(rows, scores, a + 1, 1)
    ELSE LET t == GroupTotal(rows, scores, AreaNames[a], AgentNames[g], 1)
         IN  (IF t.tasks = 0 THEN <<>>
              ELSE <<[area |-> AreaNames[a], agent |-> AgentNames[g],
                      total_score |-> t.total_score, tasks |-> t.tasks]>>)
             \o AgentAggFrom(rows, scores, a, g + 1)

AgentAgg(rows) == AgentAggFrom(rows, TaskScores(rows), 1, 1)

\* one area group of agent_agg: sum of total_score, sum of tasks, the agents
RECURSIVE AreaTotal(_, _, _)
AreaTotal(agents, area, i) ==
    IF i > Len(agents) THEN [total_score |-> 0, successful_tasks |-> 0, names |-> {}]
    ELSE LET rest == AreaTotal(agents, area, i + 1)
         IN  IF agents[i].area = area
             THEN [total_score |-> agents[i].total_score + rest.total_score,
                   successful_tasks |-> agents[i].tasks + rest.successful_tasks,
                   names |-> {agents[i].agent} \cup rest.names]
             ELSE rest

\* the area group with successful_tasks aggregated by "count" instead of "sum"
AreaRowCounted(agents, area) ==
    LET t == AreaTotal(agents, area, 1)
    IN  [area |-> area, total_score |-> t.total_score,
         successful_tasks |-> Cardinality({i \in 1..Len(agents) : agents[i].area = area}),
         agents_count |-> Cardinality(t.names)]

AreaRow(agents, area) ==
    LET t == AreaTotal(agents, area, 1)
    IN  [area |-> area, total_score |-> t.total_score,
         successful_tasks |-> t.successful_tasks,
         agents_count |-> Cardinality(t.names)]

\* area_agg before sorting: groupby("_area_clean") in key order
RECURSIVE AreaAggFrom(_, _)
AreaAggFrom(agents, a) ==
    IF a > Len(AreaNames) THEN <<>>
    ELSE (IF \E i \in 1..Len(agents) : agents[i].area = AreaNames[a]
          THEN <<AreaRow(agents, AreaNames[a])>> ELSE <<>>)
         \o AreaAggFrom(agents, a + 1)

\* sort_values("total_score", ascending=False): every order of the rows
\* that is descending in total_score (the sort is not stable)
SortedByScore(rows) ==
    {[i \in 1..Len(rows) |-> rows[p[i]]] :
        p \in {q \in [1..Len(rows) -> 1..Len(rows)] :
                  /\ \A i, j \in 1..Len(rows) : i # j => q[i] # q[j]
                  /\ \A i \in 1..(Len(rows) - 1) : rows[q[i]].total_score >= rows[q[i + 1]].total_score}}

AreaAggs(agents) == SortedByScore(AreaAggFrom(agents, 1))

(***************************************************************************)
(* Settings page and Scorecard page: the order-weights file.  A file is a  *)
(* sequence of lines; a weight is hundredths, a missing cell is None.      *)
(***************************************************************************)
MaxGrid == 2

\* repr(float) of a weight >= 0, as to_csv writes it
FloatRepr(v) ==
    NatToStr(v \div 100) \o <<".">>
    \o (IF v % 100 = 0 THEN <<"0">>
        ELSE IF v % 10 = 0 THEN <<DigitChar((v % 100) \div 10)>>
        ELSE ZeroPad(v % 100, 2))

\* the digits of s as a number
RECURSIVE DigitsValue(_)
DigitsValue(s) == IF s = <<>> THEN 0 ELSE DigitsValue(SubSeq(s, 1, Len(s) - 1)) * 10 + DigitOf(s[Len(s)])

\* position of the first "." of s, or 0
DotAt(s) == IF \E i \in 1..Len(s) : s[i] = "." THEN CHOOSE i \in 1..Len(s) : s[i] = "." /\ \A j \in 1..(i - 1) : s[j] # "." ELSE 0

\* the float a field of digits with up to two decimals parses to
ParseFloat(s) ==
    LET dot == DotAt(s)
        whole == IF dot = 0 THEN s ELSE SubSeq(s, 1, dot - 1)
        frac == IF dot = 0 THEN <<>> ELSE SubSeq(s, dot + 1, Len(s))
    IN  DigitsValue(whole) * 100
        + (IF Len(frac) = 0 THEN 0
           ELSE IF Len(frac) = 1 THEN DigitOf(frac[1]) * 10
           ELSE DigitsValue(SubSeq(frac, 1, 2)))

IsNumberText(s) ==
    /\ s # <<>> /\ s # <<".">>
    /\ \A i \in 1..Len(s) : IsDigit(s[i]) \/ s[i] = "."
    /\ Cardinality({i \in 1..Len(s) : s[i] = "."}) <= 1

QuotedEmpty == <<"\"", "\"">>

WeightHeader == <<"w", "e", "i", "g", "h", "t">>

\* w_edit.to_csv(W_FILE, index=False): the header, then one line per row;
\* the lone empty field of a missing weight is written quoted
OrderWeightsToCsv(grid) ==
    <<WeightHeader>> \o [i \in 1..Len(grid) |-> IF grid[i] = None THEN QuotedEmpty ELSE FloatRepr(Val(grid[i]))]

\* pd.read_csv of a one-column file: blank lines are skipped, the first
\* line left names the column, an empty field is missing
ReadCsv(lines) ==
    LET kept == SelectSeq(lines, LAMBDA l : l # <<>>)
    IN  [columns |-> IF kept = <<>> THEN <<>> ELSE <<kept[1]>>,
         values |-> IF kept = <<>> THEN <<>> ELSE Tail(kept)]

\* astype(float) of one field: None for a missing one
FieldToFloat(field) == IF field = QuotedEmpty THEN None ELSE Some(ParseFloat(field))

\* read_csv that takes the quoted empty field for a blank line
load_order_weights_skipping(file) ==
    IF file = None THEN [i \in 1..Len(DEFAULT_ORDER_WEIGHTS) |-> Some(DEFAULT_ORDER_WEIGHTS[i])]
    ELSE LET df == ReadCsv(SelectSeq(Val(file), LAMBDA l : l # QuotedEmpty))
         IN  [i \in 1..Len(df.values) |-> FieldToFloat(df.values[i])]

\* load_order_weights of the Scorecard page
load_order_weights(file) ==
    LET default == [i \in 1..Len(DEFAULT_ORDER_WEIGHTS) |-> Some(DEFAULT_ORDER_WEIGHTS[i])]
    IN  IF file = None THEN default
        ELSE LET df == ReadCsv(Val(file))
             IN  IF df.columns = <<>> THEN default        \* EmptyDataError
                 ELSE IF \E i \in 1..Len(df.values) :
                            df.values[i] # QuotedEmpty /\ ~IsNumberText(df.values[i])
                      THEN default                         \* astype(float) raises
                 ELSE [i \in 1..Len(df.values) |-> FieldToFloat(df.values[i])]

GridWeights == {75, 100}

\* what a cell of the grid can hold: a weight, or nothing
GridCells == {None} \cup {Some(v) : v \in GridWeights}

(***************************************************************************)
(* The state machines.  page names the component a behaviour runs; the     *)
(* variables of the other components keep their idle values.               *)
(***************************************************************************)
ScoringIdle ==
    /\ order_weights = <<>> /\ case_scores = <<>> /\ case_list = <<>>
    /\ mobility_type = <<>> /\ task_score = None /\ row_score = None

IntervalIdle == created_ts = None /\ interval = None

MetricsIdle == df_grouped = <<>> /\ time_column = "" /\ agg_df = None

AllocIdle ==
    /\ period_data = <<>> /\ total_fleet_size = 0
    /\ confidence_threshold = 0 /\ alloc = NotAllocated

QuartileIdle == quartiles_df = <<>> /\ agent_score = 0 /\ quartile_label = None

MobilityIdle ==
    /\ mobility_map = <<>> /\ agent_name = "" /\ raw_val = <<>> /\ mobility = None

AggregateIdle ==
    /\ df_tasks = <<>> /\ agent_choice = "" /\ area_choice = "" /\ case_choice = <<>>
    /\ agent_agg = <<>> /\ area_agg = <<>>

SettingsIdle == w_edit = <<>> /\ weights_csv = None /\ loaded_weights = <<>>

AttendanceIdle == checkin_hours = 0 /\ checkin_diff = None

KpiIdle == kpi_value = KpiNone /\ kpi_text = None

HeatDataIdle == heatdata = <<>>

LiveOpsIdle == liveops = <<>>

LoadersIdle == loaders = <<>>

MobilitySettingsIdle == mobility_settings = <<>>

AreaRenderIdle == area_render = <<>>

AllocHeatmapIdle == alloc_heatmap = <<>>

HeatFilterIdle == heat_filter = <<>>

TicketsIdle == tickets = <<>>

LiveFilterIdle == live_filter = <<>>

HeatMemoIdle == heat_memo = <<>>

TotalTimeIdle == attendance_row = <<>>

\* every component but p is idle
OthersIdle(p) ==
    /\ IF p = "scoring" THEN TRUE ELSE ScoringIdle
    /\ IF p = "interval" THEN TRUE ELSE IntervalIdle
    /\ IF p = "metrics" THEN TRUE ELSE MetricsIdle
    /\ IF p = "alloc" THEN TRUE ELSE AllocIdle
    /\ IF p = "quartile" THEN TRUE ELSE QuartileIdle
    /\ IF p = "mobility" THEN TRUE ELSE MobilityIdle
    /\ IF p = "aggregate" THEN TRUE ELSE AggregateIdle
    /\ IF p = "settings" THEN TRUE ELSE SettingsIdle
    /\ IF p = "attendance" THEN TRUE ELSE AttendanceIdle
    /\ IF p = "kpi" THEN TRUE ELSE KpiIdle
    /\ IF p = "heatdata" THEN TRUE ELSE HeatDataIdle
    /\ IF p = "liveops" THEN TRUE ELSE LiveOpsIdle
    /\ IF p = "loaders" THEN TRUE ELSE LoadersIdle
    /\ IF p = "mobility_settings" THEN TRUE ELSE MobilitySettingsIdle
    /\ IF p = "area_render" THEN TRUE ELSE AreaRenderIdle
    /\ IF p = "alloc_heatmap" THEN TRUE ELSE AllocHeatmapIdle
    /\ IF p = "heat_filter" THEN TRUE ELSE HeatFilterIdle
    /\ IF p = "tickets" THEN TRUE ELSE TicketsIdle
    /\ IF p = "live_filter" THEN TRUE ELSE LiveFilterIdle
    /\ IF p = "heat_memo" THEN TRUE ELSE HeatMemoIdle
    /\ IF p = "total_time" THEN TRUE ELSE TotalTimeIdle

\* a step of component p leaves the page and the other components alone
Frame(p) ==
    /\ page = p
    /\ UNCHANGED page
    /\ IF p = "scoring" THEN TRUE ELSE UNCHANGED scoringVars
    /\ IF p = "interval" THEN TRUE ELSE UNCHANGED intervalVars
    /\ IF p = "metrics" THEN TRUE ELSE UNCHANGED metricsVars
    /\ IF p = "alloc" THEN TRUE ELSE UNCHANGED allocVars
    /\ IF p = "quartile" THEN TRUE ELSE UNCHANGED quartileVars
    /\ IF p = "mobility" THEN TRUE ELSE UNCHANGED mobilityVars
    /\ IF p = "aggregate" THEN TRUE ELSE UNCHANGED aggregateVars
    /\ IF p = "settings" THEN TRUE ELSE UNCHANGED settingsVars
    /\ IF p = "attendance" THEN TRUE ELSE UNCHANGED attendanceVars
    /\ IF p = "kpi" THEN TRUE ELSE UNCHANGED kpiVars
    /\ IF p = "heatdata" THEN TRUE ELSE UNCHANGED heatdataVars
    /\ IF p = "liveops" THEN TRUE ELSE UNCHANGED liveopsVars
    /\ IF p = "loaders" THEN TRUE ELSE UNCHANGED loadersVars
    /\ IF p = "mobility_settings" THEN TRUE ELSE UNCHANGED mobilitySettingsVars
    /\ IF p = "area_render" THEN TRUE ELSE UNCHANGED areaRenderVars
    /\ IF p = "alloc_heatmap" THEN TRUE ELSE UNCHANGED allocHeatmapVars
    /\ IF p = "heat_filter" THEN TRUE ELSE UNCHANGED heatFilterVars
    /\ IF p = "tickets" THEN TRUE ELSE UNCHANGED ticketsVars
    /\ IF p = "live_filter" THEN TRUE ELSE UNCHANGED liveFilterVars
    /\ IF p = "heat_memo" THEN TRUE ELSE UNCHANGED heatMemoVars
    /\ IF p = "total_time" THEN TRUE ELSE UNCHANGED totalTimeVars

(***************************************************************************)
(* Scoring: one record, scored by both scoring functions                   *)
(***************************************************************************)
InitScoring ==
    /\ page = "scoring" /\ pc = "call"
    /\ order_weights \in SeqsOf(WeightValues, 1, MaxWeights)
    /\ case_scores = CaseScoreTable
    /\ case_list \in SeqsOf(CaseNames, 0, MaxCases)
    /\ mobility_type \in {MOTO, TRIC}
    /\ task_score = None /\ row_score = None
    /\ OthersIdle("scoring")

ComputeTaskScore ==
    /\ Frame("scoring")
    /\ task_score = None
    /\ task_score' = Some(compute_task_score(case_list, mobility_type, case_scores, order_weights))
    /\ pc' = IF row_score # None THEN "return" ELSE pc
    /\ UNCHANGED <<order_weights, case_scores, case_list, mobility_type, row_score>>

ComputeScoreRow ==
    /\ Frame("scoring")
    /\ row_score = None
    /\ row_score' = Some(compute_score_row(case_list, mobility_type, UtilCaseScores(case_scores), order_weights))
    /\ pc' = IF task_score # None THEN "return" ELSE pc
    /\ UNCHANGED <<order_weights, case_scores, case_list, mobility_type, task_score>>

NextScoring == ComputeTaskScore \/ ComputeScoreRow

SpecScoring == InitScoring /\ [][NextScoring]_vars

(***************************************************************************)
(* Interval: one timestamp through calculate_interval                      *)
(***************************************************************************)
InitInterval ==
    /\ page = "interval" /\ pc = "call"
    /\ created_ts \in {Some([year |-> y, month |-> m, day |-> d, hour |-> h]) :
                          y \in TsYears, m \in TsMonths, d \in TsDays, h \in TsHours}
    /\ interval = None
    /\ OthersIdle("interval")

CalculateInterval ==
    /\ Frame("interval")
    /\ pc = "call"
    /\ interval' = Some(calculate_interval(Val(created_ts)))
    /\ pc' = "return"
    /\ UNCHANGED created_ts

NextInterval == CalculateInterval

SpecInterval == InitInterval /\ [][NextInterval]_vars

(***************************************************************************)
(* HeatData: calculate_metrics on the filtered rows                        *)
(***************************************************************************)
InitMetrics ==
    /\ page = "metrics" /\ pc = "call"
    /\ df_grouped \in SeqsOf(SampleRows, 0, MaxRows)
    /\ time_column \in {"_hour", "_time_interval"}
    /\ agg_df = None
    /\ OthersIdle("metrics")

CalculateMetrics ==
    /\ Frame("metrics")
    /\ pc = "call"
    /\ agg_df' = Some(calculate_metrics(df_grouped, time_column))
    /\ pc' = "return"
    /\ UNCHANGED <<df_grouped, time_column>>

NextMetrics == CalculateMetrics

SpecMetrics == InitMetrics /\ [][NextMetrics]_vars

(***************************************************************************)
(* HeatData: the allocation model on the selected bucket                   *)
(***************************************************************************)
\* the Confidence Threshold slider: 50 to 100 in steps of 5
ConfidenceThresholds == {50, 70}

InitAlloc ==
    /\ page = "alloc" /\ pc = "call"
    /\ period_data \in PeriodDatas(HourBucket(7))
    /\ total_fleet_size \in 1..MaxFleet
    /\ confidence_threshold \in ConfidenceThresholds
    /\ alloc = NotAllocated
    /\ OthersIdle("alloc")

RunAllocation ==
    /\ Frame("alloc")
    /\ pc = "call"
    /\ alloc' = Allocate(period_data, total_fleet_size, confidence_threshold)
    /\ pc' = "return"
    /\ UNCHANGED <<period_data, total_fleet_size, confidence_threshold>>

NextAlloc == RunAllocation

SpecAlloc == InitAlloc /\ [][NextAlloc]_vars

(***************************************************************************)
(* Scorecard: the quartile label of one agent                              *)
(***************************************************************************)
InitQuartile ==
    /\ page = "quartile" /\ pc = "call"
    /\ quartiles_df \in QuartileTables
    /\ agent_score \in AgentScores
    /\ quartile_label = None
    /\ OthersIdle("quartile")

GetQuartileLabel ==
    /\ Frame("quartile")
    /\ pc = "call"
    /\ quartile_label' = Some(get_quartile_label(agent_score, quartiles_df))
    /\ pc' = "return"
    /\ UNCHANGED <<quartiles_df, agent_score>>

NextQuartile == GetQuartileLabel

SpecQuartile == InitQuartile /\ [][NextQuartile]_vars

(***************************************************************************)
(* Scorecard: the mobility class of one row                                *)
(***************************************************************************)
InitMobility ==
    /\ page = "mobility" /\ pc = "call"
    /\ mobility_map \in MobilityMaps
    /\ agent_name \in {AgentNames[i] : i \in 1..Len(AgentNames)}
    /\ raw_val \in RawTexts
    /\ mobility = None
    /\ OthersIdle("mobility")

ResolveMobility ==
    /\ Frame("mobility")
    /\ pc = "call"
    /\ mobility' = Some(resolve_mobility_for_row(agent_name, raw_val, mobility_map))
    /\ pc' = "return"
    /\ UNCHANGED <<mobility_map, agent_name, raw_val>>

NextMobility == ResolveMobility

SpecMobility == InitMobility /\ [][NextMobility]_vars

(***************************************************************************)
(* Scorecard: a run of the page script after an upload, and a rerun after  *)
(* each change of a filter                                                 *)
(***************************************************************************)
\* the options of the three selectboxes
AgentOptions(rows) == {"All"} \cup {rows[i].agent : i \in 1..Len(rows)}

AreaOptions(rows) == {"All"} \cup {rows[i].area : i \in 1..Len(rows)}

CaseOptions(rows) ==
    {AllCases} \cup UNION {{rows[i].cases[j] : j \in 1..Len(rows[i].cases)} : i \in 1..Len(rows)}

\* the aggregates the script leaves for the chosen filters
Aggregated(rows, agent_c, area_c, case_c) ==
    /\ agent_agg' = AgentAgg(FilterSuccess(rows, agent_c, area_c, case_c))
    /\ area_agg' \in AreaAggs(agent_agg')

InitAggregate ==
    /\ page = "aggregate" /\ pc = "rendered"
    /\ df_tasks \in SeqsOf(SampleTasks, 1, MaxTasks)
    /\ agent_choice = "All" /\ area_choice = "All" /\ case_choice = AllCases
    /\ agent_agg = AgentAgg(FilterSuccess(df_tasks, "All", "All", AllCases))
    /\ area_agg \in AreaAggs(agent_agg)
    /\ OthersIdle("aggregate")

\* the Agent selectbox changes and the script reruns
SelectAgent ==
    /\ Frame("aggregate")
    /\ \E a \in AgentOptions(df_tasks) \ {agent_choice} :
          /\ agent_choice' = a
          /\ Aggregated(df_tasks, a, area_choice, case_choice)
    /\ UNCHANGED <<pc, df_tasks, area_choice, case_choice>>

\* the Area selectbox changes and the script reruns
SelectArea ==
    /\ Frame("aggregate")
    /\ \E r \in AreaOptions(df_tasks) \ {area_choice} :
          /\ area_choice' = r
          /\ Aggregated(df_tasks, agent_choice, r, case_choice)
    /\ UNCHANGED <<pc, df_tasks, agent_choice, case_choice>>

\* the Case selectbox changes and the script reruns
SelectCase ==
    /\ Frame("aggregate")
    /\ \E c \in CaseOptions(df_tasks) \ {case_choice} :
          /\ case_choice' = c
          /\ Aggregated(df_tasks, agent_choice, area_choice, c)
    /\ UNCHANGED <<pc, df_tasks, agent_choice, area_choice>>

NextAggregate == SelectAgent \/ SelectArea \/ SelectCase

SpecAggregate == InitAggregate /\ [][NextAggregate]_vars

(***************************************************************************)
(* Settings: the order-weights grid, its file, and the Scorecard's load    *)
(***************************************************************************)
\* a list of weights as grid cells
AsGrid(weights) == [i \in 1..Len(weights) |-> Some(weights[i])]

InitSettings ==
    /\ page = "settings" /\ pc = "editing"
    /\ w_edit = AsGrid(DEFAULT_ORDER_WEIGHTS)
    /\ weights_csv = None
    /\ loaded_weights = load_order_weights(None)
    /\ OthersIdle("settings")

\* the operator clears the grid
ClearGrid ==
    /\ Frame("settings")
    /\ w_edit # <<>>
    /\ w_edit' = <<>>
    /\ pc' = "editing"
    /\ UNCHANGED <<weights_csv, loaded_weights>>

\* the operator adds a row
AddRow ==
    /\ Frame("settings")
    /\ Len(w_edit) < MaxGrid
    /\ \E c \in GridCells : w_edit' = Append(w_edit, c)
    /\ pc' = "editing"
    /\ UNCHANGED <<weights_csv, loaded_weights>>

\* the operator deletes a row
DeleteRow ==
    /\ Frame("settings")
    /\ Len(w_edit) <= MaxGrid
    /\ \E i \in 1..Len(w_edit) :
          w_edit' = SubSeq(w_edit, 1, i - 1) \o SubSeq(w_edit, i + 1, Len(w_edit))
    /\ pc' = "editing"
    /\ UNCHANGED <<weights_csv, loaded_weights>>

\* the Save Order Weights button
SaveOrderWeights ==
    /\ Frame("settings")
    /\ weights_csv' = Some(OrderWeightsToCsv(w_edit))
    /\ pc' = "saved"
    /\ UNCHANGED <<w_edit, loaded_weights>>

\* a run of the Scorecard page
LoadOrderWeights ==
    /\ Frame("settings")
    /\ loaded_weights' = load_order_weights(weights_csv)
    /\ pc' = IF pc = "saved" THEN "reloaded" ELSE pc
    /\ UNCHANGED <<w_edit, weights_csv>>

NextSettings == ClearGrid \/ AddRow \/ DeleteRow \/ SaveOrderWeights \/ LoadOrderWeights

SpecSettings == InitSettings /\ [][NextSettings]_vars

(***************************************************************************)
(* Attendance: one record through calculate_check_in_diff                  *)
(***************************************************************************)
InitAttendance ==
    /\ page = "attendance" /\ pc = "call"
    /\ checkin_hours \in (-MaxHours)..MaxHours
    /\ checkin_diff = None
    /\ OthersIdle("attendance")

CalculateCheckInDiff ==
    /\ Frame("attendance")
    /\ pc = "call"
    /\ checkin_diff' = Some(calculate_check_in_diff(checkin_hours))
    /\ pc' = "return"
    /\ UNCHANGED checkin_hours

NextAttendance == CalculateCheckInDiff

SpecAttendance == InitAttendance /\ [][NextAttendance]_vars

(***************************************************************************)
(* KPI cards: one value through fmt                                        *)
(***************************************************************************)
InitKpi ==
    /\ page = "kpi" /\ pc = "call"
    /\ kpi_value \in KpiValues
    /\ kpi_text = None
    /\ OthersIdle("kpi")

Fmt ==
    /\ Frame("kpi")
    /\ pc = "call"
    /\ kpi_text' = Some(fmt(kpi_value))
    /\ pc' = "return"
    /\ UNCHANGED kpi_value

NextKpi == Fmt

SpecKpi == InitKpi /\ [][NextKpi]_vars

(***************************************************************************)
(* Properties of the scoring functions                                     *)
(***************************************************************************)
\* the weight of the case at position i (from 0) of a list of k weights:
\* weights[i] when i < k, weights[k-1] otherwise
PositionWeight(weights, i) == weights[Min2(i, Len(weights) - 1) + 1]

\* C1: for every case list and every non-empty order-weights list, both
\* compute_task_score and compute_score_row return the sum over all
\* positions i of (weights[i] when i < k, else weights[k-1]) times the score
\* the function gives the case at position i.
C1_PositionWeightedSum ==
    /\ task_score # None =>
          Val(task_score) =
              SumSeq([i \in 1..Len(case_list) |->
                  PositionWeight(order_weights, i - 1)
                  * compute_task_score(<<case_list[i]>>, mobility_type, case_scores, <<1>>)])
    /\ row_score # None =>
          Val(row_score) =
              SumSeq([i \in 1..Len(case_list) |->
                  PositionWeight(order_weights, i - 1)
                  * compute_score_row(<<case_list[i]>>, mobility_type, UtilCaseScores(case_scores), <<1>>)])

\* weights [1.0, 0.75, 0.5] and four cases that all score 2 give 5.5
C1_Witness ==
    /\ order_weights = <<100, 75, 50>>
    /\ case_list = <<LowBattery, LowBattery, LowBattery, LowBattery>>
    /\ mobility_type = MOTO
    /\ task_score = Some(550) /\ row_score = Some(550)

(***************************************************************************)
(* Properties of calculate_interval                                        *)
(***************************************************************************)
\* the calendar date of ts is 2025-04-25 or later
OnOrAfterCutoffDate(ts) ==
    \/ ts.year > 2025
    \/ ts.year = 2025 /\ ts.month > 4
    \/ ts.year = 2025 /\ ts.month = 4 /\ ts.day >= 25

\* C2: for every timestamp with hour h, calculate_interval returns h+3 if
\* h < 21 else h-21 when the date is on or after 2025-04-25, and h+2 if
\* h < 22 else h-22 when the date is before it.
C2_IntervalByCutoff ==
    interval # None =>
        LET ts == Val(created_ts)
            h == ts.hour
        IN  Val(interval) =
                IF OnOrAfterCutoffDate(ts)
                THEN (IF h < 21 THEN h + 3 ELSE h - 21)
                ELSE (IF h < 22 THEN h + 2 ELSE h - 22)

\* hour 22 on the cutoff date itself gives 1
C2_Witness ==
    /\ created_ts = Some([year |-> 2025, month |-> 4, day |-> 25, hour |-> 22])
    /\ interval = Some(1)

(***************************************************************************)
(* Properties of the allocation model                                      *)
(***************************************************************************)
\* C3: for every selected bucket with at least one neighborhood and every
\* fleet size F >= 1, once the allocation steps have run the
\* Recommended_Vehicles of the neighborhoods sum to exactly F.
C3_AllocationSumsToFleet ==
    pc = "return" =>
        /\ alloc.status = "done"
        /\ SumSeq(alloc.Recommended_Vehicles) = total_fleet_size

\* whenever the cast of step 7 does not raise, the sum is the fleet size
C3_SumsToFleetWhenScored ==
    alloc.status = "done" =>
        /\ Len(alloc.Recommended_Vehicles) = Len(period_data)
        /\ SumSeq(alloc.Recommended_Vehicles) = total_fleet_size

\* a bucket in which every session became a ride: the scores are undefined
C3_Witness ==
    /\ pc = "return"
    /\ \A i \in 1..Len(period_data) : period_data[i].MissedOpportunity = 0
    /\ \E i \in 1..Len(period_data) : period_data[i].Sessions > 0
    /\ alloc.status = "raised"

(***************************************************************************)
(* Properties of the quartile label                                        *)
(***************************************************************************)
\* the bands of the table whose inclusive range [min, max] contains score
BandsContaining(table, score) ==
    {i \in 1..Len(table) :
        /\ table[i].min.t = "num" /\ table[i].max.t = "num"
        /\ table[i].min.n <= score /\ score <= table[i].max.n}

\* C4: for every agent score and every quartile table, the label is
\* "{quartile} - {label}" of the first band in table order whose inclusive
\* range contains the score, and "Unassigned" when no band contains it.
C4_FirstContainingBand ==
    quartile_label # None =>
        LET hits == BandsContaining(quartiles_df, agent_score)
        IN  Val(quartile_label) =
                IF hits = {} THEN Unassigned
                ELSE LET first == CHOOSE i \in hits : \A j \in hits : i <= j
                     IN  StrOfCell(quartiles_df[first].quartile) \o DashSep
                         \o StrOfCell(quartiles_df[first].label)

\* with a table whose quartile names are all text the label is the first
\* containing band's; with the default bands 26, 27 and 91 map as stated
C4_FirstBandWhenQuartileIsText ==
    /\ (quartile_label # None /\ \A i \in 1..Len(quartiles_df) : quartiles_df[i].quartile.t = "str")
          => C4_FirstContainingBand
    /\ (quartile_label # None /\ quartiles_df = DEFAULT_QUARTILES) =>
          /\ agent_score = 2600 => Val(quartile_label) = <<"Q", "1">> \o DashSep \o LowPerformer
          /\ agent_score = 2700 => Val(quartile_label) = <<"Q", "2">> \o DashSep \o MidPerformer
          /\ agent_score = 9100 => Val(quartile_label) = Unassigned

\* a score of 10 in the band whose quartile is the number 1
C4_Witness ==
    /\ quartiles_df = NumberedQuartiles
    /\ agent_score = 1000
    /\ quartile_label = Some(Unassigned)

(***************************************************************************)
(* Properties of the mobility resolution                                   *)
(***************************************************************************)
\* TRIC when the text contains "TRIC" or starts with "TR", else MOTO
ClassOfEntry(text) ==
    IF Contains(text, <<"T", "R", "I", "C">>) \/ StartsWith(text, <<"T", "R">>) THEN TRIC ELSE MOTO

\* TRIC only when the raw text contains "TRIC" or "TRI", else MOTO
ClassOfRaw(text) ==
    IF Contains(text, <<"T", "R", "I", "C">>) \/ Contains(text, <<"T", "R", "I">>) THEN TRIC ELSE MOTO

\* C5 as stated: for a row whose agent has an entry in the mobility map the
\* result is TRIC when the upper-cased entry contains "TRIC" or starts with
\* "TR" and MOTO otherwise, whatever the raw text; for an agent absent from
\* the map it is decided by the upper-cased raw text.
C5_EntryUpperCased ==
    mobility # None =>
        Val(mobility) =
            IF agent_name \in DOMAIN mobility_map
            THEN ClassOfEntry(StrUpper(mobility_map[agent_name]))
            ELSE ClassOfRaw(StrUpper(raw_val))

\* C5: the settings map has precedence over the raw vehicle text: for a row
\* whose agent has an entry, the result is TRIC when the entry, stripped of
\* surrounding whitespace and upper-cased, contains "TRIC" or starts with
\* "TR", and MOTO otherwise; for an agent absent from the map it is TRIC
\* only when the upper-cased raw text contains "TRIC" or "TRI", else MOTO.
C5_MapBeforeRawText ==
    mobility # None =>
        Val(mobility) =
            IF agent_name \in DOMAIN mobility_map
            THEN ClassOfEntry(StrUpper(StrStrip(mobility_map[agent_name])))
            ELSE ClassOfRaw(StrUpper(raw_val))

\* an agent mapped to "Moto" whose row says "tricycle" is MOTO
C5_Witness ==
    /\ agent_name \in DOMAIN mobility_map
    /\ mobility_map[agent_name] = <<"M", "o", "t", "o">>
    /\ raw_val = <<"t", "r", "i", "c", "y", "c", "l", "e">>
    /\ mobility = Some(MOTO)

(***************************************************************************)
(* Properties of the scorecard aggregates                                  *)
(***************************************************************************)
\* the sum of a column over the agent-aggregate rows of one area
SumOfArea(agents, area, column) ==
    SumSeq([i \in 1..Len(agents) |->
        IF agents[i].area # area THEN 0
        ELSE IF column = "tasks" THEN agents[i].tasks ELSE agents[i].total_score])

\* C6: for every dataset and every combination of agent, area and case
\* filters, each row of the area aggregate has successful_tasks equal to the
\* sum of tasks, and total_score equal to the sum of total_score, over the
\* agent-aggregate rows of its area.
C6_AreaSumsAgents ==
    \A k \in 1..Len(area_agg) :
        /\ area_agg[k].successful_tasks = SumOfArea(agent_agg, area_agg[k].area, "tasks")
        /\ area_agg[k].total_score = SumOfArea(agent_agg, area_agg[k].area, "total_score")

\* filtered by a case, an area of two agents, one of them with two tasks
C6_Witness ==
    /\ case_choice = LowBattery
    /\ \E k \in 1..Len(area_agg) :
          /\ area_agg[k].agents_count = 2
          /\ area_agg[k].successful_tasks = 3
          /\ area_agg[k].total_score > 0

(***************************************************************************)
(* Properties of the order-weights save and load cycle                     *)
(***************************************************************************)
\* C7: saving the order-weights grid and then loading it with the
\* Scorecard's load_order_weights returns exactly the saved sequence of
\* weights, in the same order and with the same length, for every grid.
C7_SaveLoadRoundTrip ==
    pc = "reloaded" => loaded_weights = w_edit

\* a saved grid of a weight and an empty cell, loaded again
C7_Witness ==
    /\ pc = "reloaded"
    /\ w_edit = <<Some(75), None>>
    /\ loaded_weights = <<Some(75), None>>

(***************************************************************************)
(* Properties of calculate_check_in_diff                                   *)
(***************************************************************************)
\* C8: Total Check In Difference is 0 when Check-in Difference Hours is
\* >= 0, 0 when the lateness |hours| x 60 is at most 15 minutes, and the
\* full lateness in minutes otherwise.
C8_GracePeriod ==
    checkin_diff # None =>
        LET lateness == -checkin_hours * 60      \* hundredths of a minute
        IN  /\ checkin_hours >= 0 => Val(checkin_diff) = 0
            /\ (checkin_hours < 0 /\ lateness <= 1500) => Val(checkin_diff) = 0
            /\ (checkin_hours < 0 /\ lateness > 1500) => Val(checkin_diff) = lateness
            /\ checkin_hours = -20 => Val(checkin_diff) = 0
            /\ checkin_hours = -30 => Val(checkin_diff) = 1800
            /\ checkin_hours = 10 => Val(checkin_diff) = 0

\* exactly 15 minutes late counts as nothing
C8_Witness == checkin_hours = -25 /\ checkin_diff = Some(0)

(***************************************************************************)
(* Properties of calculate_metrics                                         *)
(***************************************************************************)
\* C9: in every cell, Neighborhood Fulfillment Rate is 0 when Sessions is
\* 0, Active (Avg) and Urgent (Avg) are 0 when Snapshots is 0, Utilization
\* is 0 when Active (Avg) is 0, and none of these columns is NaN or
\* infinite.
C9_ZeroGuards ==
    agg_df # None =>
        \A k \in 1..Len(Val(agg_df)) :
            LET cell == Val(agg_df)[k]
            IN  /\ cell.Sessions = 0 => cell.FulfillmentRate = FZero
                /\ cell.Snapshots = 0 => cell.ActiveAvg = FZero /\ cell.UrgentAvg = FZero
                /\ cell.ActiveAvg = FZero => cell.Utilization = FZero
                /\ IsFinite(cell.FulfillmentRate) /\ IsFinite(cell.ActiveAvg)
                /\ IsFinite(cell.UrgentAvg) /\ IsFinite(cell.Utilization)

\* a cell without sessions, a cell without snapshots, and a cell with
\* rides but no active vehicles
C9_Witness ==
    /\ agg_df # None
    /\ \E k \in 1..Len(Val(agg_df)) : Val(agg_df)[k].Sessions = 0 /\ Val(agg_df)[k].Snapshots > 0
    /\ \E k \in 1..Len(Val(agg_df)) : Val(agg_df)[k].Snapshots = 0 /\ Val(agg_df)[k].Active > 0
    /\ \E k \in 1..Len(Val(agg_df)) :
          /\ Val(agg_df)[k].Rides > 0 /\ Val(agg_df)[k].Active = 0 /\ Val(agg_df)[k].Snapshots > 0

(***************************************************************************)
(* Properties of fmt                                                       *)
(***************************************************************************)
\* the text does not end in "K"
WithoutK(text) == ~EndsWith(text, <<"K">>)

\* the integer part of a rendered number: the digits before the point
IntegerPart(text) ==
    LET unsigned == IF text # <<>> /\ text[1] = "-" THEN Tail(text) ELSE text
        dot == DotAt(unsigned)
    IN  DigitsValue(IF dot = 0 THEN unsigned ELSE SubSeq(unsigned, 1, dot - 1))

\* the three rules of fmt
FmtRules(x, text) ==
    /\ x.kind \in {"none", "nan"} => text = <<"0">>
    /\ (x.kind \in {"float", "int"} /\ Abs(x.milli) >= 1000000) =>
          text = FormatFixed(x.milli, 1000000, 1) \o <<"K">>
    /\ (x.kind = "float" /\ Abs(x.milli) < 1000000) =>
          LET two == FormatFixed(x.milli, 1000, 2)
          IN  text = IF EndsWith(two, <<".", "0", "0">>) THEN SubSeq(two, 1, Len(two) - 3) ELSE two

\* C10 as stated: fmt maps a missing or NaN value to "0", a value of
\* magnitude >= 1000 to value/1000 with one decimal and a "K", any other
\* float to its two-decimal rendering with a trailing ".00" removed; every
\* value of magnitude below 1000 is rendered without a "K" and with an
\* integer part below 1000.
C10_IntegerPartBelow1000 ==
    kpi_text # None =>
        /\ FmtRules(kpi_value, Val(kpi_text))
        /\ (kpi_value.kind \in {"float", "int"} /\ Abs(kpi_value.milli) < 1000000) =>
              /\ WithoutK(Val(kpi_text))
              /\ IntegerPart(Val(kpi_text)) < 1000

\* C10: fmt maps a missing or NaN value to "0", a value of magnitude >= 1000
\* to value/1000 with one decimal and a "K", any other float to its
\* two-decimal rendering with a trailing ".00" removed; every value of
\* magnitude below 1000 is rendered without a "K" and with an integer part
\* of at most 1000, which is 1000 only when the magnitude is 999.995 or more.
C10_FmtRendering ==
    kpi_text # None =>
        /\ FmtRules(kpi_value, Val(kpi_text))
        /\ (kpi_value.kind \in {"float", "int"} /\ Abs(kpi_value.milli) < 1000000) =>
              /\ WithoutK(Val(kpi_text))
              /\ IntegerPart(Val(kpi_text)) <= 1000
              /\ IntegerPart(Val(kpi_text)) = 1000 => Abs(kpi_value.milli) >= 999995

\* 999.996 is below 1000 and is rendered as "1000"
C10_Witness ==
    /\ kpi_value = KpiFloat(999996)
    /\ kpi_text = Some(<<"1", "0", "0", "0">>)

(***************************************************************************)
(* HeatData page: the sidebar, the session cache and the render passes.    *)
(* A date is a day number.  heatdata is a record: the widget values        *)
(* (source_type, start_d, end_d, api_token, uploaded_file), the session    *)
(* cache (data), and what the last pass of the script did (request: the    *)
(* range it sent to the export API, reply: how that fetch ended, rerun: it *)
(* ended in st.rerun(), fetch_enabled / clear_shown: the buttons it        *)
(* rendered, view, and event: what triggered it).  The memo of             *)
(* st.cache_data is left out here (every fetch may get any reply); it is   *)
(* modelled with the fetch handler in the section on the fetch memo.       *)
(***************************************************************************)
MAX_DATE_RANGE_DAYS == 365

\* the dates an operator picks; the page opens on the last seven days
DateChoices == {1, 2, 360, 367}

DefaultRange == [start_d |-> 360, end_d |-> 367]

\* validate_date_range: is_valid
validate_date_range(start_date, end_date) ==
    IF start_date > end_date THEN FALSE
    ELSE IF end_date - start_date > MAX_DATE_RANGE_DAYS THEN FALSE
    ELSE TRUE

\* the datasets the export API can return
ApiDatasets == {"fetched1", "fetched2"}

\* how a call of fetch_heat_data followed by process_data can end
HeatReplies ==
    {[kind |-> "ok", df |-> d] : d \in ApiDatasets}
    \cup {[kind |-> k, df |-> ""] :
            k \in {"empty", "status_not_200", "timeout", "connection_error",
                   "missing_columns", "dates_unparseable"}}

NoReply == [kind |-> "none", df |-> ""]

\* the failures of a fetch
FailedFetch == {"status_not_200", "timeout", "connection_error", "missing_columns",
                "dates_unparseable", "bad_json"}

\* the files an operator can drop in an uploader
UploadFiles ==
    {[name |-> "upload1", kind |-> "good"], [name |-> "upload2", kind |-> "good"],
     [name |-> "upload3", kind |-> "missing_columns"], [name |-> "upload4", kind |-> "unreadable"]}

\* fetch_heat_data then the test of the handler: the frame to process, None
\* for a fetch that returned None and for an empty frame
HeatFetched(reply) ==
    IF reply.kind \in {"status_not_200", "timeout", "connection_error", "empty"} THEN None
    ELSE Some(reply)

\* process_data without the test of the required columns and of the dates
process_data_unvalidated(raw) == Some(raw.df)

\* process_data: None when a required column is missing or no date parses
process_data(raw) ==
    IF raw.kind \in {"missing_columns", "dates_unparseable"} THEN None ELSE Some(raw.df)

\* the sidebar of one pass, up to the Clear Data block
HeatSidebar(h, fetch_clicked, reply) ==
    IF h.source_type = "api"
    THEN LET is_valid == validate_date_range(h.start_d, h.end_d)
             enabled == h.api_token /\ is_valid
             raw == IF fetch_clicked THEN HeatFetched(reply) ELSE None
             processed == IF raw = None THEN None ELSE process_data(Val(raw))
         IN  [h EXCEPT !.fetch_enabled = enabled,
                       !.request = IF fetch_clicked THEN Some(<<h.start_d, h.end_d>>) ELSE @,
                       !.reply = IF fetch_clicked THEN reply ELSE NoReply,
                       !.data = IF processed # None THEN processed ELSE @,
                       !.rerun = processed # None]
    ELSE LET raw == IF h.uploaded_file = None \/ Val(h.uploaded_file).kind = "unreadable"
                    THEN None
                    ELSE Some([kind |-> Val(h.uploaded_file).kind, df |-> Val(h.uploaded_file).name])
             processed == IF raw = None THEN None ELSE process_data(Val(raw))
         IN  [h EXCEPT !.fetch_enabled = FALSE,
                       !.reply = NoReply,
                       !.data = IF processed # None THEN processed ELSE @,
                       !.rerun = processed # None]

\* Clear Data without the assignment of None
HeatClearKeeping(h, clear_clicked) ==
    IF h.rerun THEN [h EXCEPT !.clear_shown = FALSE, !.view = "rerun"]
    ELSE IF h.data # None /\ clear_clicked
         THEN [h EXCEPT !.clear_shown = FALSE, !.rerun = TRUE, !.view = "rerun"]
    ELSE [h EXCEPT !.clear_shown = (h.data # None),
                   !.view = IF h.data = None THEN "get_started" ELSE "dashboard"]

\* the rest of the pass: the Clear Data block and the empty-state guard
HeatClearAndMain(h, clear_clicked) ==
    IF h.rerun THEN [h EXCEPT !.clear_shown = FALSE, !.view = "rerun"]
    ELSE IF h.data # None /\ clear_clicked
         THEN [h EXCEPT !.data = None, !.clear_shown = FALSE, !.rerun = TRUE, !.view = "rerun"]
    ELSE [h EXCEPT !.clear_shown = (h.data # None),
                   !.view = IF h.data = None THEN "get_started" ELSE "dashboard"]

\* one run of the page script
HeatPass(h, event, reply) ==
    HeatClearAndMain(HeatSidebar([h EXCEPT !.event = event], event = "fetch", reply),
                     event = "clear")

\* the page as a browser session opens it: one pass with the defaults
HeatOpened(token) ==
    HeatPass([source_type |-> "api", start_d |-> DefaultRange.start_d, end_d |-> DefaultRange.end_d,
              api_token |-> token, uploaded_file |-> None, data |-> None,
              request |-> None, reply |-> NoReply, rerun |-> FALSE,
              fetch_enabled |-> FALSE, clear_shown |-> FALSE, view |-> "", event |-> "open"],
             "open", NoReply)

InitHeatData ==
    /\ page = "heatdata" /\ pc = "rendered"
    /\ heatdata \in {HeatOpened(token) : token \in BOOLEAN}
    /\ OthersIdle("heatdata")

\* the operator changes the Data Source radio; a widget that is not
\* rendered loses its value
HeatSelectSource ==
    /\ Frame("heatdata")
    /\ \E src \in {"api", "upload"} \ {heatdata.source_type} :
          heatdata' = HeatPass([heatdata EXCEPT !.source_type = src, !.uploaded_file = None],
                               "source", NoReply)
    /\ UNCHANGED pc

\* the operator picks a start or an end date
HeatPickDates ==
    /\ Frame("heatdata")
    /\ heatdata.source_type = "api"
    /\ \E s \in DateChoices, e \in DateChoices :
          /\ (s = heatdata.start_d) # (e = heatdata.end_d)
          /\ heatdata' = HeatPass([heatdata EXCEPT !.start_d = s, !.end_d = e], "dates", NoReply)
    /\ UNCHANGED pc

\* the operator types or erases the manual token (no token in the secrets)
HeatTypeToken ==
    /\ Frame("heatdata")
    /\ heatdata.source_type = "api"
    /\ heatdata' = HeatPass([heatdata EXCEPT !.api_token = ~@], "token", NoReply)
    /\ UNCHANGED pc

\* the operator clicks Fetch Data, which the last pass rendered enabled
HeatFetchData ==
    /\ Frame("heatdata")
    /\ heatdata.source_type = "api" /\ heatdata.fetch_enabled
    /\ \E reply \in HeatReplies : heatdata' = HeatPass(heatdata, "fetch", reply)
    /\ UNCHANGED pc

\* the operator drops a file in the uploader, or removes it
HeatChooseFile ==
    /\ Frame("heatdata")
    /\ heatdata.source_type = "upload"
    /\ \E f \in ({None} \cup {Some(u) : u \in UploadFiles}) \ {heatdata.uploaded_file} :
          heatdata' = HeatPass([heatdata EXCEPT !.uploaded_file = f], "upload", NoReply)
    /\ UNCHANGED pc

\* the operator clicks Clear Data, which the last pass rendered
HeatClearData ==
    /\ Frame("heatdata")
    /\ heatdata.clear_shown
    /\ heatdata' = HeatPass(heatdata, "clear", NoReply)
    /\ UNCHANGED pc

\* the pass that st.rerun() starts
HeatRerun ==
    /\ Frame("heatdata")
    /\ heatdata.rerun
    /\ heatdata' = HeatPass(heatdata, "rerun", NoReply)
    /\ UNCHANGED pc

NextHeatData ==
    \/ HeatSelectSource \/ HeatPickDates \/ HeatTypeToken \/ HeatFetchData
    \/ HeatChooseFile \/ HeatClearData \/ HeatRerun

(***************************************************************************)
(* Live Ops page: the fetch expander, the uploader, the session cache and  *)
(* the render passes.  liveops is a record: the widget values (api_start,  *)
(* api_end, uploaded), the session cache (df, None while "df" is not in    *)
(* the session state), and what the last pass did (request, reply,         *)
(* rendered: the dataset it went on to render, aborted: it raised, event). *)
(***************************************************************************)
\* how a call of fetch_liveops_data can end; requests.post raises on a
\* timeout or a connection error
LiveReplies ==
    {[kind |-> "ok", df |-> d] : d \in ApiDatasets}
    \cup {[kind |-> k, df |-> ""] :
            k \in {"status_not_200", "bad_json", "timeout", "connection_error"}}

\* fetch_liveops_data raises
LiveFetchRaises(reply) == reply.kind \in {"timeout", "connection_error"}

\* the api_btn block
LiveFetchBlock(l, reply) ==
    LET sent == [l EXCEPT !.request = Some(<<l.api_start, l.api_end>>), !.reply = reply]
    IN  IF LiveFetchRaises(reply) THEN [sent EXCEPT !.aborted = TRUE]
        ELSE IF reply.kind = "ok" THEN [sent EXCEPT !.df = Some(reply.df)]
        ELSE sent

\* the uploader block: read_csv / read_excel raises on an unreadable file
LiveUploadBlock(l) ==
    IF l.aborted \/ l.uploaded = None THEN l
    ELSE IF Val(l.uploaded).kind = "unreadable" THEN [l EXCEPT !.aborted = TRUE]
    ELSE [l EXCEPT !.df = Some(Val(l.uploaded).name)]

\* the session load: st.stop() while there is no dataset
LiveSessionLoad(l) ==
    [l EXCEPT !.rendered = IF l.aborted THEN None ELSE l.df]

\* one run of the page script
LivePass(l, event, reply) ==
    LET start == [l EXCEPT !.event = event, !.reply = NoReply, !.aborted = FALSE, !.rendered = None]
    IN  LiveSessionLoad(LiveUploadBlock(
            IF event = "fetch" THEN LiveFetchBlock(start, reply) ELSE start))

\* the page as a browser session opens it: both dates are today
LiveOpened ==
    LivePass([api_start |-> DefaultRange.end_d, api_end |-> DefaultRange.end_d,
              uploaded |-> None, df |-> None, request |-> None, reply |-> NoReply,
              rendered |-> None, aborted |-> FALSE, event |-> "open"],
             "open", NoReply)

InitLiveOps ==
    /\ page = "liveops" /\ pc = "rendered"
    /\ liveops = LiveOpened
    /\ OthersIdle("liveops")

\* the operator picks a start or an end date
LivePickDates ==
    /\ Frame("liveops")
    /\ \E s \in DateChoices, e \in DateChoices :
          /\ (s = liveops.api_start) # (e = liveops.api_end)
          /\ liveops' = LivePass([liveops EXCEPT !.api_start = s, !.api_end = e], "dates", NoReply)
    /\ UNCHANGED pc

\* the operator clicks Fetch Live Ops Data
LiveFetch ==
    /\ Frame("liveops")
    /\ \E reply \in LiveReplies : liveops' = LivePass(liveops, "fetch", reply)
    /\ UNCHANGED pc

\* the operator drops a file in the uploader, or removes it
LiveChooseFile ==
    /\ Frame("liveops")
    /\ \E f \in ({None} \cup {Some(u) : u \in UploadFiles}) \ {liveops.uploaded} :
          liveops' = LivePass([liveops EXCEPT !.uploaded = f], "upload", NoReply)
    /\ UNCHANGED pc

\* the operator changes a filter of the dashboard, which the last pass rendered
LiveChangeFilter ==
    /\ Frame("liveops")
    /\ liveops.rendered # None
    /\ liveops' = LivePass(liveops, "filter", NoReply)
    /\ UNCHANGED pc

NextLiveOps == LivePickDates \/ LiveFetch \/ LiveChooseFile \/ LiveChangeFilter

(***************************************************************************)
(* The two fetch-capable pages                                             *)
(***************************************************************************)
InitFetchPages == InitHeatData \/ InitLiveOps

NextFetchPages == NextHeatData \/ NextLiveOps

SpecFetchPages == InitFetchPages /\ [][NextFetchPages]_vars

(***************************************************************************)
(* Properties of the fetch-capable pages                                   *)
(***************************************************************************)
\* the range of the last request a page sent to the export API
RequestValid(request) ==
    request = None \/ validate_date_range(Val(request)[1], Val(request)[2])

\* C11: on HeatData and on Live Ops a request is sent to the export API only
\* for a date range that passes validate_date_range (start not after end,
\* span of at most 365 days).
C11_FetchOnlyValidRange ==
    /\ page = "heatdata" => RequestValid(heatdata.request)
    /\ page = "liveops" => RequestValid(liveops.request)

\* the Live Ops page sent a request to the export API
C11_Witness ==
    /\ page = "liveops" /\ liveops.event = "fetch"
    /\ liveops.request # None

\* C12: a pass whose live fetch fails (non-200 response, timeout, connection
\* error, unparseable body, or a dataset that fails the required-column
\* validation) leaves the session-cached dataset as it was before the click.
C12_FailedFetchKeepsCache ==
    [][/\ page = "heatdata"
          => (heatdata'.event = "fetch" /\ heatdata'.reply.kind \in FailedFetch
                => heatdata'.data = heatdata.data)
       /\ page = "liveops"
          => (liveops'.event = "fetch" /\ liveops'.reply.kind \in FailedFetch
                => liveops'.df = liveops.df)]_vars

\* a fetch failed the column validation while a dataset was cached
C12_Witness ==
    /\ page = "heatdata" /\ heatdata.event = "fetch"
    /\ heatdata.reply.kind = "missing_columns"
    /\ heatdata.data # None

\* C16: on HeatData a click on Clear Data empties the session cache and asks
\* for a new pass; the cache then stays empty, and a pass that runs to its end
\* shows the get-started view, until a pass of a fetch or of an upload fills it.
C16_ClearedUntilNewData ==
    [][page = "heatdata" =>
         /\ heatdata'.event = "clear" => heatdata'.data = None /\ heatdata'.rerun
         /\ heatdata.data = None /\ heatdata'.data # None
              => heatdata'.event \in {"fetch", "upload"}
         /\ heatdata'.data = None /\ ~heatdata'.rerun
              => heatdata'.view = "get_started"]_vars

\* the pass after a click on Clear Data ran: the cache is empty and the
\* get-started view is shown
C16_Witness ==
    /\ page = "heatdata" /\ heatdata.event = "rerun"
    /\ heatdata.data = None /\ heatdata.view = "get_started"
    /\ heatdata.request # None

\* C17: on Live Ops, after a successful live fetch the dataset the pass
\* renders and the dataset in the session cache are the fetched one, also
\* while a file is present in the uploader.
C17_FetchedDatasetWins ==
    page = "liveops" /\ liveops.event = "fetch" /\ liveops.reply.kind = "ok"
      => /\ liveops.rendered = Some(liveops.reply.df)
         /\ liveops.df = Some(liveops.reply.df)

\* a live fetch succeeded while a readable file was in the uploader
C17_Witness ==
    /\ page = "liveops" /\ liveops.event = "fetch" /\ liveops.reply.kind = "ok"
    /\ liveops.uploaded # None /\ ~liveops.aborted

(***************************************************************************)
(* Properties of the case lookup of the two scoring functions              *)
(***************************************************************************)
\* the keys of the score table equal to the case name, and those equal to it
\* when letter case is ignored
ExactKeys(table, case_name) ==
    {i \in 1..Len(table) : table[i].case = case_name}

FoldedKeys(table, case_name) ==
    {i \in 1..Len(table) : StrLower(table[i].case) = StrLower(case_name)}

\* the score of a row of the table for a mobility type
ScoreFor(r, mob) == IF mob = TRIC THEN r.tric ELSE r.moto

\* the scores the case-insensitive rule allows for a case name: the exact
\* key's, else a key's equal to it ignoring letter case, else 0
FoldedScores(table, mob, case_name) ==
    IF ExactKeys(table, case_name) # {}
    THEN {ScoreFor(table[i], mob) : i \in ExactKeys(table, case_name)}
    ELSE IF FoldedKeys(table, case_name) # {}
    THEN {ScoreFor(table[i], mob) : i \in FoldedKeys(table, case_name)}
    ELSE {0}

\* the total of the case list when each case scores by the rule (the table
\* has one key per letter-case class here, so the rule gives one score)
FoldedTotal ==
    SumSeq([i \in 1..Len(case_list) |->
        PositionWeight(order_weights, i - 1)
        * (CHOOSE s \in FoldedScores(case_scores, mobility_type, case_list[i]) : TRUE)])

\* C15: in compute_task_score and in compute_score_row alike, a case with no
\* exact key that equals a key ignoring letter case adds that key's score
\* times its position weight, and a case equal to no key adds 0.
C15_CaseInsensitiveFallback ==
    /\ task_score # None => Val(task_score) = FoldedTotal
    /\ row_score # None => Val(row_score) = FoldedTotal

\* both functions scored a list holding a case that only matches a key when
\* letter case is ignored, and one matching no key
C15_Witness ==
    /\ task_score # None /\ row_score # None
    /\ \E i \in 1..Len(case_list) :
          /\ ExactKeys(case_scores, case_list[i]) = {}
          /\ FoldedKeys(case_scores, case_list[i]) # {}
    /\ \E i \in 1..Len(case_list) : FoldedKeys(case_scores, case_list[i]) = {}

\* C15 for compute_task_score alone
TaskScoreFolds == task_score # None => Val(task_score) = FoldedTotal

(***************************************************************************)
(* Loaders of the utility library (scorecard_utils).  The file at a path   *)
(* is None when absent, else a record: readable (read_csv parses it) and   *)
(* the frame read_csv gives, its column names in file order and one        *)
(* function from column name to cell per row.  A call either returns a     *)
(* value or raises to its caller.                                          *)
(***************************************************************************)
PositionHeader == <<"p", "o", "s", "i", "t", "i", "o", "n">>
CaseHeader == <<"c", "a", "s", "e">>
MotoHeader == <<"m", "o", "t", "o">>
TricHeader == <<"t", "r", "i", "c">>
NameHeader == <<"n", "a", "m", "e">>
MobilityHeader == <<"m", "o", "b", "i", "l", "i", "t", "y">>

Returned(value) == [raised |-> FALSE, value |-> value]
Raised == [raised |-> TRUE, value |-> <<>>]

HasColumn(df, column) == \E j \in 1..Len(df.columns) : df.columns[j] = column

_safe_read_csv(file) ==
    IF file = None THEN None
    ELSE IF ~Val(file).readable THEN None
    ELSE Some(Val(file).frame)

\* the default of load_weights
UTIL_DEFAULT_WEIGHTS == <<100, 75, 50, 25, 25, 25>>

\* df.sort_values("position"): a stable insertion of each row in turn
RECURSIVE SortedByPosition(_)
SortedByPosition(rows) ==
    IF rows = <<>> THEN <<>>
    ELSE LET init == SortedByPosition(SubSeq(rows, 1, Len(rows) - 1))
             last == rows[Len(rows)]
             before == SelectSeq(init, LAMBDA r : Val(r[PositionHeader]) <= Val(last[PositionHeader]))
             after == SelectSeq(init, LAMBDA r : Val(r[PositionHeader]) > Val(last[PositionHeader]))
         IN  before \o <<last>> \o after

load_weights(file) ==
    LET df == _safe_read_csv(file)
    IN  IF df = None THEN Returned([i \in 1..Len(UTIL_DEFAULT_WEIGHTS) |-> Some(UTIL_DEFAULT_WEIGHTS[i])])
        ELSE IF ~HasColumn(Val(df), PositionHeader) THEN Raised      \* KeyError: 'position'
        ELSE IF ~HasColumn(Val(df), WeightHeader) THEN Raised        \* KeyError: 'weight'
        ELSE LET sorted == SortedByPosition(Val(df).rows)
             IN  Returned([i \in 1..Len(sorted) |-> sorted[i][WeightHeader]])

\* dict(zip(keys, values)) over the rows: the last row of a key wins
DictZip(rows, key_column, value_of(_)) ==
    [k \in {rows[i][key_column] : i \in 1..Len(rows)} |->
        LET last == CHOOSE i \in 1..Len(rows) :
                        /\ rows[i][key_column] = k
                        /\ \A j \in (i + 1)..Len(rows) : rows[j][key_column] # k
        IN  value_of(rows[last])]

\* the default of load_case_scores
UTIL_DEFAULT_CASE_SCORES == [m \in {MOTO, TRIC} |-> <<>>]

load_case_scores(file) ==
    LET df == _safe_read_csv(file)
    IN  IF df = None THEN Returned(UTIL_DEFAULT_CASE_SCORES)
        ELSE LET mobility_types == {c \in {Val(df).columns[j] : j \in 1..Len(Val(df).columns)} :
                                        StrLower(c) # CaseHeader}
             IN  IF mobility_types = {} THEN Returned(<<>>)
                 ELSE IF ~HasColumn(Val(df), CaseHeader) THEN Raised   \* KeyError: 'case'
                 ELSE Returned([m \in {StrUpper(c) : c \in mobility_types} |->
                         DictZip(Val(df).rows, CaseHeader,
                                 LAMBDA r : LET c == CHOOSE c \in mobility_types : StrUpper(c) = m
                                            IN  IF r[c] = None THEN 0 ELSE Val(r[c]))])

load_mobility_table(file) ==
    LET df == _safe_read_csv(file)
    IN  IF df = None THEN Returned(<<>>)
        ELSE IF ~HasColumn(Val(df), NameHeader) THEN Raised          \* KeyError: 'name'
        ELSE IF ~HasColumn(Val(df), MobilityHeader) THEN Raised      \* KeyError: 'mobility'
        ELSE Returned(DictZip([i \in 1..Len(Val(df).rows) |->
                                  [c \in DOMAIN Val(df).rows[i] |-> 
                                      IF c = NameHeader THEN StrLower(Val(df).rows[i][c])
                                      ELSE Val(df).rows[i][c]]],
                              NameHeader, LAMBDA r : StrUpper(r[MobilityHeader])))

\* a file read_csv cannot parse
UnreadableFile == Some([readable |-> FALSE, frame |-> [columns |-> <<>>, rows |-> <<>>]])

\* a file read_csv parses to the columns and rows given; a row is kept to the
\* columns of the file
CsvFile(columns, rows) ==
    Some([readable |-> TRUE,
          frame |-> [columns |-> columns,
                     rows |-> [i \in 1..Len(rows) |->
                                 [c \in {columns[j] : j \in 1..Len(columns)} |-> rows[i][c]]]]])

\* the order-weights file Save Order Weights writes for a grid, as read_csv
\* reads it back
SettingsWeightsFile(grid) ==
    LET df == ReadCsv(OrderWeightsToCsv(grid))
    IN  CsvFile(df.columns,
                [i \in 1..Len(df.values) |-> [c \in {df.columns[1]} |-> FieldToFloat(df.values[i])]])

\* rows of an order-weights file with a position column
PositionedRows ==
    {[c \in {PositionHeader, WeightHeader} |-> IF c = PositionHeader THEN Some(q) ELSE Some(w)] :
        q \in 1..MaxGrid, w \in GridWeights}

WeightsFiles ==
    {None, UnreadableFile}
    \cup {SettingsWeightsFile(grid) : grid \in SeqsOf(GridCells, 0, MaxGrid)}
    \cup {CsvFile(columns, rows) :
            columns \in {<<PositionHeader, WeightHeader>>, <<PositionHeader>>},
            rows \in SeqsOf(PositionedRows, 0, MaxGrid)}

CaseRows ==
    {[c \in {CaseHeader, MotoHeader, TricHeader} |->
        IF c = CaseHeader THEN k ELSE IF c = MotoHeader THEN v ELSE Some(1)] :
        k \in {LowBattery, lowbattery}, v \in {None, Some(2)}}

CaseScoresFiles ==
    {None, UnreadableFile}
    \cup {CsvFile(columns, rows) :
            columns \in {<<CaseHeader, MotoHeader, TricHeader>>, <<MotoHeader, TricHeader>>, <<CaseHeader>>},
            rows \in SeqsOf(CaseRows, 0, MaxGrid)}

MobilityRows ==
    {[c \in {NameHeader, MobilityHeader} |-> IF c = NameHeader THEN n ELSE v] :
        n \in {<<"A", "l", "i">>, <<"a", "l", "i">>}, v \in {<<"T", "r", "i", "c">>, <<"m", "o", "t", "o">>}}

MobilityFiles ==
    {None, UnreadableFile}
    \cup {CsvFile(columns, rows) :
            columns \in {<<NameHeader, MobilityHeader>>, <<NameHeader>>, <<MobilityHeader>>},
            rows \in SeqsOf(MobilityRows, 0, MaxGrid)}

InitLoaders ==
    /\ page = "loaders" /\ pc = "call"
    /\ loaders = [loader |-> "none", file |-> None, out |-> Returned(<<>>)]
    /\ OthersIdle("loaders")

LoadWeights ==
    /\ Frame("loaders")
    /\ \E file \in WeightsFiles :
          loaders' = [loader |-> "load_weights", file |-> file, out |-> load_weights(file)]
    /\ UNCHANGED pc

LoadCaseScores ==
    /\ Frame("loaders")
    /\ \E file \in CaseScoresFiles :
          loaders' = [loader |-> "load_case_scores", file |-> file, out |-> load_case_scores(file)]
    /\ UNCHANGED pc

LoadMobilityTable ==
    /\ Frame("loaders")
    /\ \E file \in MobilityFiles :
          loaders' = [loader |-> "load_mobility_table", file |-> file, out |-> load_mobility_table(file)]
    /\ UNCHANGED pc

NextLoaders == LoadWeights \/ LoadCaseScores \/ LoadMobilityTable

SpecLoaders == InitLoaders /\ [][NextLoaders]_vars

(***************************************************************************)
(* Properties of the utility loaders                                       *)
(***************************************************************************)
\* the columns a loader expects
ExpectedColumns(loader) ==
    IF loader = "load_weights" THEN {PositionHeader, WeightHeader}
    ELSE IF loader = "load_case_scores" THEN {CaseHeader}
    ELSE {NameHeader, MobilityHeader}

LoaderDefault(loader) ==
    IF loader = "load_weights"
    THEN [i \in 1..Len(UTIL_DEFAULT_WEIGHTS) |-> Some(UTIL_DEFAULT_WEIGHTS[i])]
    ELSE IF loader = "load_case_scores" THEN UTIL_DEFAULT_CASE_SCORES
    ELSE <<>>

\* the file is absent, unreadable, or lacks a column the loader expects
FileFails(loader, file) ==
    \/ _safe_read_csv(file) = None
    \/ \E c \in ExpectedColumns(loader) : ~HasColumn(Val(_safe_read_csv(file)), c)

\* C13: load_weights, load_case_scores and load_mobility_table return a
\* value and never raise, and return their default for an absent file, an
\* unreadable file and a CSV that lacks an expected column.
C13_LoadersNeverRaise ==
    page = "loaders" /\ loaders.loader # "none" =>
        /\ ~loaders.out.raised
        /\ FileFails(loaders.loader, loaders.file)
              => loaders.out.value = LoaderDefault(loaders.loader)

\* a loader was called on a readable CSV that lacks an expected column
C13_Witness ==
    /\ page = "loaders" /\ loaders.loader = "load_case_scores"
    /\ _safe_read_csv(loaders.file) # None
    /\ ~HasColumn(Val(_safe_read_csv(loaders.file)), CaseHeader)

\* each loader returns its default for an absent and for an unreadable file
LoadersDefaultWithoutFrame ==
    page = "loaders" /\ loaders.loader # "none" /\ _safe_read_csv(loaders.file) = None
        => ~loaders.out.raised /\ loaders.out.value = LoaderDefault(loaders.loader)

\* the file of the last call was written by Save Order Weights
WrittenBySettings(file) ==
    \E grid \in SeqsOf(GridCells, 0, MaxGrid) : file = SettingsWeightsFile(grid)

\* C14: load_weights accepts an order-weights file the Settings page wrote
\* (a weight column and no position column) and returns its weights in row
\* order; with a position column it returns them sorted by position.
C14_SettingsFileAccepted ==
    page = "loaders" /\ loaders.loader = "load_weights" /\ _safe_read_csv(loaders.file) # None =>
        LET df == Val(_safe_read_csv(loaders.file))
        IN  /\ WrittenBySettings(loaders.file) =>
                 /\ ~loaders.out.raised
                 /\ loaders.out.value = [i \in 1..Len(df.rows) |-> df.rows[i][WeightHeader]]
            /\ HasColumn(df, PositionHeader) /\ HasColumn(df, WeightHeader) =>
                 /\ ~loaders.out.raised
                 /\ loaders.out.value =
                      [i \in 1..Len(df.rows) |-> SortedByPosition(df.rows)[i][WeightHeader]]

\* load_weights was called on a file Save Order Weights wrote for a grid of
\* two weights
C14_Witness ==
    /\ page = "loaders" /\ loaders.loader = "load_weights"
    /\ loaders.file = SettingsWeightsFile(<<Some(100), Some(75)>>)

\* with a position and a weight column the weights come back in the order of
\* their positions, rows of one position in file order
SortedWhenPositioned ==
    page = "loaders" /\ loaders.loader = "load_weights" /\ _safe_read_csv(loaders.file) # None =>
        LET df == Val(_safe_read_csv(loaders.file))
        IN  HasColumn(df, PositionHeader) /\ HasColumn(df, WeightHeader) =>
              /\ ~loaders.out.raised
              /\ \E perm \in [1..Len(df.rows) -> 1..Len(df.rows)] :
                    /\ \A i, j \in 1..Len(df.rows) : i # j => perm[i] # perm[j]
                    /\ \A i, j \in 1..Len(df.rows) :
                          i < j => \/ Val(df.rows[perm[i]][PositionHeader]) < Val(df.rows[perm[j]][PositionHeader])
                                   \/ /\ Val(df.rows[perm[i]][PositionHeader]) = Val(df.rows[perm[j]][PositionHeader])
                                      /\ perm[i] < perm[j]
                    /\ loaders.out.value = [i \in 1..Len(df.rows) |-> df.rows[perm[i]][WeightHeader]]

(***************************************************************************)
(* Settings page: the mobility mapping section.  mobility_settings is a    *)
(* record: m_file (the table in settings/mobility.csv, None while the file *)
(* is absent), uploaded (the file in the uploader), editor_data (the frame *)
(* the data editor was created for), edits (the grid the operator made of  *)
(* it, None while untouched), mobility_edit (the grid the last pass got    *)
(* from the editor) and event (what triggered the last pass).  A table is  *)
(* a sequence of name/mobility rows.                                       *)
(***************************************************************************)
MappingRows == {[name |-> "ali", mobility |-> v] : v \in {"TRIC", "MOTO"}}

MappingTables == SeqsOf(MappingRows, 0, MaxGrid)

\* files the operator can drop in the uploader
MappingUploads ==
    {[readable |-> TRUE, table |-> t] : t \in MappingTables}
    \cup {[readable |-> FALSE, table |-> <<>>]}

\* load_mobility: the table of mobility.csv, or an empty frame
load_mobility(m_file) == IF m_file = None THEN <<>> ELSE Val(m_file)

\* the uploader block: a readable file is written to mobility.csv and shown
MappingUploadBlock(s) ==
    IF s.uploaded # None /\ Val(s.uploaded).readable
    THEN [s EXCEPT !.m_file = Some(Val(s.uploaded).table), !.mobility_df = Val(s.uploaded).table]
    ELSE [s EXCEPT !.mobility_df = load_mobility(s.m_file)]

\* st.data_editor(mobility_df): an editor given another frame starts without
\* edits; the grid it returns is the frame with the edits applied
MappingEditor(s) ==
    LET edits == IF s.mobility_df = s.editor_data THEN s.edits ELSE None
    IN  [s EXCEPT !.editor_data = s.mobility_df, !.edits = edits,
                  !.mobility_edit = IF edits = None THEN s.mobility_df ELSE Val(edits)]

\* the Save Mobility Mapping button
MappingSaveBlock(s) ==
    IF s.event = "save_mobility" THEN [s EXCEPT !.m_file = Some(s.mobility_edit)] ELSE s

\* one run of the section
MappingPass(s, event) ==
    MappingSaveBlock(MappingEditor(MappingUploadBlock([s EXCEPT !.event = event])))

InitMobilitySettings ==
    /\ page = "mobility_settings" /\ pc = "rendered"
    /\ \E file \in {None} \cup {Some(t) : t \in MappingTables} :
          mobility_settings =
              MappingPass([m_file |-> file, uploaded |-> None, mobility_df |-> <<>>,
                           editor_data |-> load_mobility(file), edits |-> None,
                           mobility_edit |-> <<>>, event |-> "open"], "open")
    /\ OthersIdle("mobility_settings")

\* the operator drops a file in the uploader, or removes it
MappingChooseUpload ==
    /\ Frame("mobility_settings")
    /\ \E f \in ({None} \cup {Some(u) : u \in MappingUploads}) \ {mobility_settings.uploaded} :
          mobility_settings' =
              MappingPass([mobility_settings EXCEPT !.uploaded = f],
                          IF f = None THEN "remove_upload" ELSE "upload")
    /\ UNCHANGED pc

\* the operator edits the grid
MappingEditGrid ==
    /\ Frame("mobility_settings")
    /\ \E t \in MappingTables \ {mobility_settings.mobility_edit} :
          mobility_settings' = MappingPass([mobility_settings EXCEPT !.edits = Some(t)], "edit")
    /\ UNCHANGED pc

\* the operator clicks Save Mobility Mapping
MappingSave ==
    /\ Frame("mobility_settings")
    /\ mobility_settings' = MappingPass(mobility_settings, "save_mobility")
    /\ UNCHANGED pc

\* the operator clicks the save button of another table
MappingSaveOther ==
    /\ Frame("mobility_settings")
    /\ mobility_settings' = MappingPass(mobility_settings, "save_other")
    /\ UNCHANGED pc

NextMobilitySettings == MappingChooseUpload \/ MappingEditGrid \/ MappingSave \/ MappingSaveOther

SpecMobilitySettings == InitMobilitySettings /\ [][NextMobilitySettings]_vars

\* C18: a click on Save Mobility Mapping leaves the edited grid in
\* mobility.csv, and every later pass keeps the file as it is unless it is
\* the pass of another such click or of a newly chosen upload file; a file
\* left in the uploader does not overwrite it.
C18_SavedMappingKept ==
    [][page = "mobility_settings" =>
         /\ mobility_settings'.event = "save_mobility"
               => mobility_settings'.m_file = Some(mobility_settings'.mobility_edit)
         /\ mobility_settings'.event \notin {"save_mobility", "upload"}
               => mobility_settings'.m_file = mobility_settings.m_file]_vars

\* the operator saved an edited grid while the file they uploaded earlier was
\* still in the uploader
C18_Witness ==
    /\ page = "mobility_settings" /\ mobility_settings.event = "save_mobility"
    /\ mobility_settings.uploaded # None /\ Val(mobility_settings.uploaded).readable
    /\ mobility_settings.m_file = Some(mobility_settings.mobility_edit)
    /\ mobility_settings.mobility_edit # Val(mobility_settings.uploaded).table

\* without a readable file in the uploader, mobility.csv only changes in the
\* pass of a Save Mobility Mapping click
SavedMappingKeptWithoutUpload ==
    [][page = "mobility_settings" =>
         ((/\ mobility_settings'.event # "save_mobility"
           /\ ~(mobility_settings'.uploaded # None /\ Val(mobility_settings'.uploaded).readable))
            => mobility_settings'.m_file = mobility_settings.m_file)]_vars

(***************************************************************************)
(* Scorecard page: the area details loop reads settings/quartiles.csv once *)
(* per area, while the Settings page of another session can save the file. *)
(* area_render is a record: q_file (the table in the file, None while the  *)
(* file is absent), pending (the table a save is writing between opening   *)
(* the file and closing it), scores (the top agent's score of each area to *)
(* show), tables_read and labels (what the pass read and showed for the    *)
(* areas done so far) and changed (a save wrote during the pass).          *)
(***************************************************************************)
MaxAreas == 2

\* scores of the agents banded
AreaAgentScores == {1000, 5500}

\* grids the Settings page saves
SavedQuartileTables == {OverlappingQuartiles, NumberedQuartiles}

\* pd.read_csv of quartiles.csv, or the default bands when it raises: the
\* file is absent, or a save has opened it and written nothing yet; a save
\* that has written part of it shows the rows written so far
QuartileReads(q_file, pending) ==
    IF pending # None
    THEN {DEFAULT_QUARTILES} \cup {SubSeq(Val(pending), 1, n) : n \in 0..Len(Val(pending))}
    ELSE IF q_file = None THEN {DEFAULT_QUARTILES}
    ELSE {Val(q_file)}

\* quartiles.csv read once, before the loop
QuartileReadsHoisted(a, q_file, pending) ==
    IF a.tables_read = <<>> THEN QuartileReads(q_file, pending) ELSE {a.tables_read[1]}

\* quartiles.csv read inside the loop
QuartileReadsInLoop(a, q_file, pending) == QuartileReads(q_file, pending)

InitAreaRender ==
    /\ page = "area_render" /\ pc = "loop"
    /\ \E scores \in SeqsOf(AreaAgentScores, 2, MaxAreas),
          file \in {None} \cup {Some(t) : t \in SavedQuartileTables} :
          area_render = [q_file |-> file, pending |-> None, scores |-> scores,
                         tables_read |-> <<>>, labels |-> <<>>, changed |-> FALSE]
    /\ OthersIdle("area_render")

\* one iteration of the loop over areas_to_show
RenderArea ==
    /\ Frame("area_render")
    /\ Len(area_render.labels) < Len(area_render.scores)
    /\ \E quartiles \in QuartileReadsInLoop(area_render, area_render.q_file, area_render.pending) :
          area_render' =
              [area_render EXCEPT
                  !.tables_read = Append(@, quartiles),
                  !.labels = Append(@, get_quartile_label(
                                 area_render.scores[Len(area_render.labels) + 1], quartiles))]
    /\ pc' = IF Len(area_render.labels) + 1 = Len(area_render.scores) THEN "rendered" ELSE "loop"

\* a widget change starts the next pass
RenderAgain ==
    /\ Frame("area_render")
    /\ pc = "rendered"
    /\ area_render' = [area_render EXCEPT !.tables_read = <<>>, !.labels = <<>>,
                                          !.changed = area_render.pending # None]
    /\ pc' = "loop"

\* Save Quartiles on the Settings page: to_csv opens the file for writing
SaveQuartilesOpen ==
    /\ Frame("area_render")
    /\ area_render.pending = None
    /\ \E t \in SavedQuartileTables :
          area_render' = [area_render EXCEPT !.pending = Some(t), !.changed = TRUE]
    /\ UNCHANGED pc

\* to_csv has written the grid and closes the file
SaveQuartilesClose ==
    /\ Frame("area_render")
    /\ area_render.pending # None
    /\ area_render' = [area_render EXCEPT !.q_file = area_render.pending, !.pending = None]
    /\ UNCHANGED pc

NextAreaRender == RenderArea \/ RenderAgain \/ SaveQuartilesOpen \/ SaveQuartilesClose

SpecAreaRender == InitAreaRender /\ [][NextAreaRender]_vars

\* every area of the pass so far was banded with the table read for the first
SameTableForEveryArea ==
    \A i \in 1..Len(area_render.tables_read) :
        /\ area_render.tables_read[i] = area_render.tables_read[1]
        /\ area_render.labels[i] = get_quartile_label(area_render.scores[i], area_render.tables_read[1])

\* C19: within one render pass every area is banded with the same quartile
\* table and gets the label a single read before the loop would give, also
\* when the Settings page saves quartiles.csv during the pass.
C19_SameTableWithinPass ==
    page = "area_render" => SameTableForEveryArea

\* a pass banded all its areas while Settings saved quartiles.csv
C19_Witness ==
    /\ page = "area_render" /\ pc = "rendered"
    /\ area_render.changed
    /\ Len(area_render.labels) = Len(area_render.scores)

\* a pass during which no save wrote bands every area with the same table
SameTableWithoutSave ==
    page = "area_render" /\ ~area_render.changed => SameTableForEveryArea

(***************************************************************************)
(* HeatData page: the allocation heatmap across time periods.  For one     *)
(* time bucket, alloc_heatmap holds its rows (period_subset), the fleet    *)
(* size and threshold, the allocation the page computes when the bucket is *)
(* the selected one (selected) and the column the loop over time_options   *)
(* computes for it (column).                                               *)
(***************************************************************************)
\* the body of the loop over time_options: the scores and the floors of the
\* shares; astype(int) raises on a NaN or infinite share
HeatmapAllocate(cells, fleet, threshold) ==
    LET scores == AllocationScore(cells, threshold)
        shares == Shares(scores, fleet)
    IN  IF \E j \in 1..Len(shares) : ~IsFinite(shares[j])
        THEN [status |-> "raised", Allocation_Score |-> scores, Recommended_Vehicles |-> <<>>]
        ELSE [status |-> "done", Allocation_Score |-> scores,
              Recommended_Vehicles |-> [j \in 1..Len(shares) |-> FFloor(shares[j])]]

InitAllocHeatmap ==
    /\ page = "alloc_heatmap" /\ pc = "call"
    /\ \E cells \in PeriodDatas(HourBucket(7)), fleet \in 1..MaxFleet,
          threshold \in ConfidenceThresholds :
          alloc_heatmap = [period_subset |-> cells, total_fleet_size |-> fleet,
                           confidence_threshold |-> threshold,
                           selected |-> NotAllocated, column |-> NotAllocated]
    /\ OthersIdle("alloc_heatmap")

\* the allocation analysis with the bucket selected
AllocateSelected ==
    /\ Frame("alloc_heatmap")
    /\ alloc_heatmap.selected = NotAllocated
    /\ alloc_heatmap' =
          [alloc_heatmap EXCEPT !.selected =
              Allocate(alloc_heatmap.period_subset, alloc_heatmap.total_fleet_size,
                       alloc_heatmap.confidence_threshold)]
    /\ UNCHANGED pc

\* the iteration of the loop over time_options for the bucket
HeatmapColumn ==
    /\ Frame("alloc_heatmap")
    /\ alloc_heatmap.column = NotAllocated
    /\ alloc_heatmap' =
          [alloc_heatmap EXCEPT !.column =
              HeatmapAllocate(alloc_heatmap.period_subset, alloc_heatmap.total_fleet_size,
                              alloc_heatmap.confidence_threshold)]
    /\ UNCHANGED pc

NextAllocHeatmap == AllocateSelected \/ HeatmapColumn

SpecAllocHeatmap == InitAllocHeatmap /\ [][NextAllocHeatmap]_vars

\* C20: for a time bucket with data, the recommended vehicles of its heatmap
\* column equal, neighborhood by neighborhood, the Recommended_Vehicles of the
\* allocation with that bucket selected, remainder distribution included, so
\* the column sums to the total fleet size.
C20_HeatmapEqualsAllocation ==
    page = "alloc_heatmap" /\ alloc_heatmap.selected.status = "done"
                           /\ alloc_heatmap.column.status = "done" =>
        /\ alloc_heatmap.column.Recommended_Vehicles = alloc_heatmap.selected.Recommended_Vehicles
        /\ SumSeq(alloc_heatmap.column.Recommended_Vehicles) = alloc_heatmap.total_fleet_size

\* both were computed for a bucket whose floored shares leave vehicles over
C20_Witness ==
    /\ page = "alloc_heatmap"
    /\ alloc_heatmap.selected.status = "done" /\ alloc_heatmap.column.status = "done"
    /\ SumSeq(alloc_heatmap.selected.Recommended_Vehicles) = alloc_heatmap.total_fleet_size
    /\ SumSeq(alloc_heatmap.column.Recommended_Vehicles) < alloc_heatmap.total_fleet_size

\* the heatmap column holds the floors of the shares: never more than the
\* allocation gives a neighborhood, and at most one vehicle less
HeatmapColumnIsFloors ==
    page = "alloc_heatmap" /\ alloc_heatmap.selected.status = "done"
                           /\ alloc_heatmap.column.status = "done" =>
        \A j \in 1..Len(alloc_heatmap.period_subset) :
            /\ alloc_heatmap.column.Recommended_Vehicles[j] <= alloc_heatmap.selected.Recommended_Vehicles[j]
            /\ alloc_heatmap.selected.Recommended_Vehicles[j] <= alloc_heatmap.column.Recommended_Vehicles[j] + 1

(***************************************************************************)
(* Scorecard page: the top KPIs, computed from agent_agg after every run   *)
(***************************************************************************)
\* agent_agg["_agent_clean"].nunique()
distinct_agents(agents) == Cardinality({agents[i].agent : i \in 1..Len(agents)})

\* area_agg["total_score"].sum()
total_score_all(areas) == SumSeq([k \in 1..Len(areas) |-> areas[k].total_score])

\* agent_agg["total_score"].mean(), or 0.0 for an empty frame
avg_all_score(agents) ==
    IF agents = <<>> THEN FZero
    ELSE FDiv(FInt(SumSeq([i \in 1..Len(agents) |-> agents[i].total_score])), FInt(Len(agents)))

\* the agent of the first row of agent_agg sorted by total_score, descending:
\* the sort is not stable, so any row with the largest total_score
top_field_tech(agents) ==
    {agents[i].agent : i \in {j \in 1..Len(agents) :
        \A k \in 1..Len(agents) : agents[j].total_score >= agents[k].total_score}}

\* an agent's score summed over all areas
AgentTotal(agents, agent) ==
    SumSeq([i \in 1..Len(agents) |-> IF agents[i].agent = agent THEN agents[i].total_score ELSE 0])

\* C21: the Average Score (All Field Techs) KPI is the total score of the
\* filtered successful tasks divided by the Distinct Agents KPI, and Top
\* Field Tech is an agent whose score summed over all areas is maximal, also
\* when an agent has tasks in more than one area.
C21_AveragePerDistinctAgent ==
    page = "aggregate" /\ agent_agg # <<>> =>
        /\ avg_all_score(agent_agg)
             = FDiv(FInt(total_score_all(area_agg)), FInt(distinct_agents(agent_agg)))
        /\ \A t \in top_field_tech(agent_agg) :
              \A i \in 1..Len(agent_agg) :
                  AgentTotal(agent_agg, t) >= AgentTotal(agent_agg, agent_agg[i].agent)

\* one agent has scored tasks in two areas
C21_Witness ==
    /\ page = "aggregate"
    /\ \E i, j \in 1..Len(agent_agg) :
          /\ agent_agg[i].agent = agent_agg[j].agent /\ agent_agg[i].area # agent_agg[j].area
          /\ agent_agg[i].total_score > 0 /\ agent_agg[j].total_score > 0

\* the average is taken over the (area, agent) rows of agent_agg
AveragePerAreaAgentRow ==
    page = "aggregate" /\ agent_agg # <<>> =>
        avg_all_score(agent_agg) = FDiv(FInt(total_score_all(area_agg)), FInt(Len(agent_agg)))

\* while every agent is in one area only, the claimed KPIs are shown
KpisWhenAgentsInOneArea ==
    page = "aggregate" /\ agent_agg # <<>>
      /\ (\A i, j \in 1..Len(agent_agg) : agent_agg[i].agent = agent_agg[j].agent => i = j) =>
        /\ avg_all_score(agent_agg)
             = FDiv(FInt(total_score_all(area_agg)), FInt(distinct_agents(agent_agg)))
        /\ \A t \in top_field_tech(agent_agg) :
              \A i \in 1..Len(agent_agg) :
                  AgentTotal(agent_agg, t) >= AgentTotal(agent_agg, agent_agg[i].agent)

(***************************************************************************)
(* Properties of the composite allocation score                            *)
(***************************************************************************)
\* a defined number between 0 and 100
ScoreDefined(score) ==
    IsFinite(score) /\ FGe(score, FZero) /\ FGe(FInt(100), score)

\* C22: in a bucket with at least one neighborhood, every neighborhood's
\* Allocation_Score is a defined number between 0 and 100 inclusive, also when
\* the largest Sessions or the largest Missed Opportunity of the bucket is 0.
C22_ScoreDefinedInRange ==
    page = "alloc" /\ pc = "return" =>
        /\ Len(alloc.Allocation_Score) = Len(period_data)
        /\ \A j \in 1..Len(period_data) : ScoreDefined(alloc.Allocation_Score[j])

\* the scores were computed for a bucket with sessions whose largest Missed
\* Opportunity is 0, and for one whose largest Sessions is 0
C22_Witness ==
    /\ page = "alloc" /\ pc = "return"
    /\ Len(alloc.Allocation_Score) = Len(period_data)
    /\ \/ /\ \A i \in 1..Len(period_data) : period_data[i].MissedOpportunity = 0
          /\ \E i \in 1..Len(period_data) : period_data[i].Sessions > 0
          /\ \E j \in 1..Len(period_data) : ~IsFinite(alloc.Allocation_Score[j])
       \/ /\ \A i \in 1..Len(period_data) : period_data[i].Sessions = 0
          /\ \E j \in 1..Len(period_data) : ~IsFinite(alloc.Allocation_Score[j])

\* the score is a number between 0 and 100 exactly when some neighborhood of
\* the bucket has a missed opportunity; otherwise it is NaN for every one
ScoreDefinedIffUnmetDemand ==
    page = "alloc" /\ pc = "return" =>
        \A j \in 1..Len(period_data) :
            IF \E i \in 1..Len(period_data) : period_data[i].MissedOpportunity > 0
            THEN ScoreDefined(alloc.Allocation_Score[j])
            ELSE alloc.Allocation_Score[j] = FNaN

(***************************************************************************)
(* Properties of the expected new rides                                    *)
(***************************************************************************)
\* (recommended - current) x (Rides / Active (Avg)) limited to the range
\* [0, upper]: the quotient as written, NaN staying NaN
ChangeTimesRidesPerVehicle(cell, recommended, upper) ==
    LET product == FMul(FAdd(FInt(recommended), FMul(FInt(-1), cell.ActiveAvg)),
                        FDiv(FInt(cell.Rides), cell.ActiveAvg))
    IN  IF product.k = "nan" THEN FNaN ELSE FClip(product, FZero, upper)

\* C23 as stated: Expected_New_Rides is 0 when Recommended_Vehicles is not
\* greater than Active (Avg), and otherwise (recommended - current) x
\* (Rides / Active (Avg)) limited to [0, Missed Opportunity]; it is never
\* negative and never above Missed Opportunity.
C23_ChangeTimesRidesPerVehicle ==
    page = "alloc" /\ alloc.status = "done" =>
        \A j \in 1..Len(period_data) :
            LET rides == alloc.Expected_New_Rides[j]
                recommended == alloc.Recommended_Vehicles[j]
            IN  /\ FGe(rides, FZero) /\ FGe(FInt(period_data[j].MissedOpportunity), rides)
                /\ IF FGt(FInt(recommended), period_data[j].ActiveAvg)
                   THEN rides = ChangeTimesRidesPerVehicle(period_data[j], recommended,
                                    FInt(period_data[j].MissedOpportunity))
                   ELSE rides = FZero

\* C23: Expected_New_Rides is 0 when Recommended_Vehicles is not greater than
\* Active (Avg) or Active (Avg) is 0, and otherwise (recommended - current) x
\* (Rides / Active (Avg)) limited to [0, Missed Opportunity]; it is never
\* negative and never above Missed Opportunity.
C23_ExpectedNewRides ==
    page = "alloc" /\ alloc.status = "done" =>
        \A j \in 1..Len(period_data) :
            LET rides == alloc.Expected_New_Rides[j]
                recommended == alloc.Recommended_Vehicles[j]
            IN  /\ FGe(rides, FZero) /\ FGe(FInt(period_data[j].MissedOpportunity), rides)
                /\ IF /\ FGt(FInt(recommended), period_data[j].ActiveAvg)
                      /\ FGt(period_data[j].ActiveAvg, FZero)
                   THEN rides = ChangeTimesRidesPerVehicle(period_data[j], recommended,
                                    FInt(period_data[j].MissedOpportunity))
                   ELSE rides = FZero

\* an increase whose product with the efficiency is above the missed
\* opportunity and was limited to it
C23_Witness ==
    /\ page = "alloc" /\ alloc.status = "done"
    /\ \E j \in 1..Len(period_data) :
          /\ FGt(period_data[j].ActiveAvg, FZero)
          /\ FGt(FInt(alloc.Recommended_Vehicles[j]), period_data[j].ActiveAvg)
          /\ FGt(ChangeTimesRidesPerVehicle(period_data[j], alloc.Recommended_Vehicles[j], FInt(1000)),
                 FInt(period_data[j].MissedOpportunity))
          /\ alloc.Expected_New_Rides[j] = FInt(period_data[j].MissedOpportunity)

\* an increase for a neighborhood that has rides and no active vehicles
IncreaseWithoutActiveVehicles ==
    /\ page = "alloc" /\ alloc.status = "done"
    /\ \E j \in 1..Len(period_data) :
          /\ period_data[j].ActiveAvg = FZero /\ period_data[j].Rides > 0
          /\ period_data[j].MissedOpportunity > 0
          /\ alloc.Recommended_Vehicles[j] > 0

(***************************************************************************)
(* HeatData page: the date filter and the two aggregates.  heat_filter is  *)
(* a record: df (the rows of the cached dataset, all of the selected       *)
(* area), dates (the options of the date multiselect, sorted),             *)
(* selected_dates, df_filtered, and the hourly and 3-interval aggregates   *)
(* (None when the pass stopped at the empty-filter warning).               *)
(***************************************************************************)
\* the calendar days of the model as dt.date.astype(str) writes them
DayTexts == <<"2025-01-01", "2025-01-02">>

\* df["Start Date - Local"].dt.date.astype(str): a missing timestamp becomes
\* the text "NaT"
DateText(start) == IF start.nat THEN "NaT" ELSE DayTexts[start.day]

\* sorted(df["_date"].dropna().unique().tolist()): the texts in text order,
\* digits before letters; a text is never missing
DateOptions(rows) ==
    LET present == {DateText(rows[i].start) : i \in 1..Len(rows)} \ {""}
        order == DayTexts \o <<"NaT">>
    IN  SelectSeq(order, LAMBDA d : d \in present)

\* df[... & df["_date"].isin(selected_dates) & ...]
FilterDates(rows, selected) ==
    SelectSeq(rows, LAMBDA r : DateText(r.start) \in selected)

\* process_data accepts the dataset: some start date was parsed
SomeDateParsed(rows) == \E i \in 1..Len(rows) : ~rows[i].start.nat

\* one pass: the options, the filter, and the two aggregates unless the
\* filtered frame is empty
FilterPass(rows, selected) ==
    LET filtered == FilterDates(rows, selected)
    IN  [df |-> rows, dates |-> DateOptions(rows), selected_dates |-> selected,
         df_filtered |-> filtered,
         df_hourly_agg |-> IF filtered = <<>> THEN None
                           ELSE Some(calculate_metrics(filtered, "_hour")),
         df_interval_agg |-> IF filtered = <<>> THEN None
                             ELSE Some(calculate_metrics(filtered, "_time_interval"))]

InitHeatFilter ==
    /\ page = "heat_filter" /\ pc = "rendered"
    /\ \E rows \in {r \in SeqsOf(SampleRows, 1, MaxRows) : SomeDateParsed(r)} :
          \* default=dates[:1]
          heat_filter = FilterPass(rows, {DateOptions(rows)[1]})
    /\ OthersIdle("heat_filter")

\* the operator changes the date multiselect
SelectDates ==
    /\ Frame("heat_filter")
    /\ \E selected \in (SUBSET {heat_filter.dates[i] : i \in 1..Len(heat_filter.dates)})
                          \ {heat_filter.selected_dates} :
          heat_filter' = FilterPass(heat_filter.df, selected)
    /\ UNCHANGED pc

NextHeatFilter == SelectDates

SpecHeatFilter == InitHeatFilter /\ [][NextHeatFilter]_vars

(***************************************************************************)
(* Properties of the bucketing of rows without a start date                *)
(***************************************************************************)
\* the total of a column over the cells of an aggregate
AggTotal(agg, column) ==
    SumSeq([k \in 1..Len(agg) |-> IF column = "Rides" THEN agg[k].Rides ELSE agg[k].Sessions])

\* the hourly and the 3-interval aggregate total the same Sessions and Rides
SameTotals ==
    heat_filter.df_hourly_agg # None =>
        /\ AggTotal(Val(heat_filter.df_hourly_agg), "Sessions")
             = AggTotal(Val(heat_filter.df_interval_agg), "Sessions")
        /\ AggTotal(Val(heat_filter.df_hourly_agg), "Rides")
             = AggTotal(Val(heat_filter.df_interval_agg), "Rides")

\* C24: a row whose start date cannot be parsed is in no hourly cell and in
\* no 3-interval cell whatever dates the operator selects, and adds no entry
\* to the date options, so both aggregates total the same Sessions and Rides.
C24_UnparsedRowExcluded ==
    page = "heat_filter" =>
        /\ \A i \in 1..Len(heat_filter.dates) : heat_filter.dates[i] \in {DayTexts[d] : d \in 1..Len(DayTexts)}
        /\ \A i \in 1..Len(heat_filter.df_filtered) : ~heat_filter.df_filtered[i].start.nat
        /\ SameTotals

\* the dataset holds a row without a start date and the operator selected
\* the option "NaT"
C24_Witness ==
    /\ page = "heat_filter"
    /\ "NaT" \in heat_filter.selected_dates
    /\ heat_filter.df_hourly_agg # None
    /\ \E i \in 1..Len(heat_filter.df_filtered) :
          heat_filter.df_filtered[i].start.nat /\ heat_filter.df_filtered[i].Sessions > 0

\* while "NaT" is not selected, no such row is aggregated and the totals agree
SameTotalsWithoutNaT ==
    page = "heat_filter" /\ "NaT" \notin heat_filter.selected_dates =>
        /\ \A i \in 1..Len(heat_filter.df_filtered) : ~heat_filter.df_filtered[i].start.nat
        /\ SameTotals

\* a selected row without a start date is in no hourly cell but is counted in
\* the Evening/Night cell of its neighborhood
UnparsedRowInEveningNight ==
    page = "heat_filter" /\ heat_filter.df_hourly_agg # None =>
        \A i \in 1..Len(heat_filter.df_filtered) :
            heat_filter.df_filtered[i].start.nat =>
                /\ GroupRows(heat_filter.df_filtered, heat_filter.df_filtered[i].Neighborhood,
                             IntervalBucket(EveningNight), "_time_interval") # {}
                /\ \A h \in 0..23 :
                      i \notin GroupRows(heat_filter.df_filtered, heat_filter.df_filtered[i].Neighborhood,
                                         HourBucket(h), "_hour")

(***************************************************************************)
(* Live Ops processing: parse_and_compute_all.  A row holds its five       *)
(* timestamp columns after _parse_iso, each None when missing (NaT); a     *)
(* timestamp is a record of calendar fields with the minute.  Durations    *)
(* are minutes.                                                            *)
(***************************************************************************)
At(day, hour, minute) == Some([year |-> 2025, month |-> 4, day |-> day, hour |-> hour, minute |-> minute])

\* minutes of a timestamp of April 2025 since the start of the month
MinutesOf(ts) == ((ts.day - 1) * 24 + ts.hour) * 60 + ts.minute

\* (a - b).dt.total_seconds() / 60: missing when either side is missing
MinutesBetween(a, b) ==
    IF a = None \/ b = None THEN None ELSE Some(MinutesOf(Val(a)) - MinutesOf(Val(b)))

\* Series.fillna(other)
FillNa(a, b) == IF a = None THEN b ELSE a

Ticket(created, local, assigned, pending, resolved) ==
    [CreatedAt |-> created, CreatedAtLocal |-> local, AssignedToAt |-> assigned,
     FirstPendingAt |-> pending, ResolvedAt |-> resolved]

\* rows of the export
SampleTickets ==
    { Ticket(At(24, 20, 0), At(24, 23, 0), At(24, 20, 30), At(24, 21, 0), At(24, 21, 30)),
      Ticket(At(25, 21, 0), None, At(25, 21, 30), None, At(25, 23, 0)),
      Ticket(None, At(25, 23, 30), None, At(25, 22, 0), None),
      Ticket(At(24, 23, 30), None, None, None, None),
      Ticket(At(25, 10, 0), At(25, 13, 0), At(25, 9, 0), None, At(25, 9, 30)) }

\* created_for_bucketing of row i, taken per row: the local value, or
\* Created At when the row has none
created_for_bucketing_per_row(rows, i) ==
    FillNa(rows[i].CreatedAtLocal, rows[i].CreatedAt)

\* created_for_bucketing of row i: the local column when any row has a local
\* value, else Created At
created_for_bucketing(rows, i) ==
    IF \E j \in 1..Len(rows) : rows[j].CreatedAtLocal # None
    THEN rows[i].CreatedAtLocal
    ELSE rows[i].CreatedAt

\* the date of a timestamp
DateOf(ts) == [year |-> ts.year, month |-> ts.month, day |-> ts.day]

parse_and_compute_all(rows) ==
    [i \in 1..Len(rows) |->
        LET r == rows[i]
            bucketing == created_for_bucketing(rows, i)
        IN  [CreatedAt |-> r.CreatedAt, CreatedAtLocal |-> r.CreatedAtLocal,
             AssignedToAt |-> r.AssignedToAt, FirstPendingAt |-> r.FirstPendingAt,
             ResolvedAt |-> r.ResolvedAt,
             ResolutionTime |-> MinutesBetween(r.ResolvedAt, r.CreatedAt),
             OnQueueTime |-> MinutesBetween(r.AssignedToAt, r.CreatedAt),
             HandlingTime |-> MinutesBetween(FillNa(r.FirstPendingAt, r.ResolvedAt), r.AssignedToAt),
             Interval |-> IF bucketing = None THEN None
                          ELSE Some(calculate_interval(Val(bucketing))),
             CreatedDate |-> IF bucketing = None THEN None ELSE Some(DateOf(Val(bucketing)))]]

InitTickets ==
    /\ page = "tickets" /\ pc = "call"
    /\ \E rows \in SeqsOf(SampleTickets, 0, MaxRows) : tickets = [df |-> rows, out |-> None]
    /\ OthersIdle("tickets")

ParseAndComputeAll ==
    /\ Frame("tickets")
    /\ pc = "call"
    /\ tickets' = [tickets EXCEPT !.out = Some(parse_and_compute_all(tickets.df))]
    /\ pc' = "return"

NextTickets == ParseAndComputeAll

SpecTickets == InitTickets /\ [][NextTickets]_vars

(***************************************************************************)
(* Properties of parse_and_compute_all                                     *)
(***************************************************************************)
\* the hour Interval shows for a timestamp: 3 hours later from 2025-04-25 on,
\* 2 hours later before, around the clock
ShiftedHour(ts) == (ts.hour + (IF ts.day >= 25 THEN 3 ELSE 2)) % 24

\* C25: parse_and_compute_all keeps every row; Resolution Time and On Queue
\* Time are measured from Created At, Handling Time from Assigned To At to
\* First Pending At (Resolved At when that is missing); Interval and Created
\* Date come from Created At (Local) when some row has a local value and from
\* Created At otherwise, so a row without a local value among rows that have
\* one gets no Interval and no Created Date.
C25_DerivedColumns ==
    page = "tickets" /\ tickets.out # None =>
        LET df == tickets.df
            out == Val(tickets.out)
            some_local == \E j \in 1..Len(df) : df[j].CreatedAtLocal # None
        IN  /\ Len(out) = Len(df)
            /\ \A i \in 1..Len(df) :
                  /\ out[i].CreatedAt = df[i].CreatedAt /\ out[i].ResolvedAt = df[i].ResolvedAt
                  /\ out[i].ResolutionTime =
                        (IF df[i].ResolvedAt = None \/ df[i].CreatedAt = None THEN None
                         ELSE Some(MinutesOf(Val(df[i].ResolvedAt)) - MinutesOf(Val(df[i].CreatedAt))))
                  /\ out[i].OnQueueTime =
                        (IF df[i].AssignedToAt = None \/ df[i].CreatedAt = None THEN None
                         ELSE Some(MinutesOf(Val(df[i].AssignedToAt)) - MinutesOf(Val(df[i].CreatedAt))))
                  /\ out[i].HandlingTime =
                        (LET fp == IF df[i].FirstPendingAt # None THEN df[i].FirstPendingAt
                                   ELSE df[i].ResolvedAt
                         IN  IF fp = None \/ df[i].AssignedToAt = None THEN None
                             ELSE Some(MinutesOf(Val(fp)) - MinutesOf(Val(df[i].AssignedToAt))))
                  /\ LET source == IF some_local THEN df[i].CreatedAtLocal ELSE df[i].CreatedAt
                     IN  IF source = None
                         THEN out[i].Interval = None /\ out[i].CreatedDate = None
                         ELSE /\ out[i].Interval = Some(ShiftedHour(Val(source)))
                              /\ out[i].CreatedDate = Some([year |-> 2025, month |-> 4, day |-> Val(source).day])

\* a row with Created At and no local value, among rows with a local value,
\* came back without Interval and Created Date
C25_Witness ==
    /\ page = "tickets" /\ tickets.out # None
    /\ \E i, j \in 1..Len(tickets.df) :
          /\ tickets.df[i].CreatedAtLocal = None /\ tickets.df[i].CreatedAt # None
          /\ tickets.df[j].CreatedAtLocal # None
          /\ Val(tickets.out)[i].Interval = None /\ Val(tickets.out)[i].CreatedDate = None
          /\ Val(tickets.out)[i].ResolutionTime # None

(***************************************************************************)
(* Live Ops filters.  A row holds Area, Main Case, Assigned To Name (None  *)
(* when missing) and Created Date as a day number (None when missing).     *)
(* st.date_input called with a range value returns a tuple of 0 to 2 dates. *)
(***************************************************************************)
LiveRow(area, main, assigned, created) ==
    [Area |-> area, MainCase |-> main, AssignedToName |-> assigned, CreatedDate |-> created]

LiveDatasets ==
    { << LiveRow(Some("Cairo"), Some("Battery"), Some("ali"), Some(1)),
         LiveRow(Some("Giza"), Some("Fence"), Some("sara"), Some(3)) >>,
      << LiveRow(Some("Cairo"), Some("Fence"), Some("ali"), Some(2)),
         LiveRow(None, Some("Battery"), Some("sara"), None),
         LiveRow(Some("Giza"), Some("Battery"), None, Some(1)) >> }

LiveDays == 1..3

\* what st.date_input("Created Date Range", []) returns: a tuple of the
\* dates picked so far (the widget accepts the two dates in either order)
DateInputValues ==
    { [kind |-> "tuple", dates |-> d] :
        d \in {<<>>} \cup { <<s>> : s \in LiveDays }
                     \cup { <<s, e>> : s \in LiveDays, e \in LiveDays } }

\* sorted(df[col].dropna().unique()), as a set
ColumnOptions(df, col) == { Val(df[i][col]) : i \in { j \in 1..Len(df) : df[j][col] # None } }

\* df_f[df_f[col].isin(selected)] when the selection is not empty
IsIn(df, col, selected) ==
    IF selected = {} THEN df
    ELSE SelectSeq(df, LAMBDA r : r[col] # None /\ Val(r[col]) \in selected)

\* the date branch: taken for a list of two dates
DateBranch(df, selected_dates) ==
    IF selected_dates.kind = "list" /\ Len(selected_dates.dates) = 2
    THEN SelectSeq(df, LAMBDA r : /\ r.CreatedDate # None
                                  /\ Val(r.CreatedDate) >= selected_dates.dates[1]
                                  /\ Val(r.CreatedDate) <= selected_dates.dates[2])
    ELSE df

ApplyFilters(df, selected_area, selected_main, selected_assigned, selected_dates) ==
    DateBranch(IsIn(IsIn(IsIn(df, "Area", selected_area), "MainCase", selected_main),
                    "AssignedToName", selected_assigned),
               selected_dates)

\* one pass of the page with the given widget values
LiveFilterPass(df, area, main, assigned, dates) ==
    [df |-> df, selected_area |-> area, selected_main |-> main,
     selected_assigned |-> assigned, selected_dates |-> dates,
     df_f |-> ApplyFilters(df, area, main, assigned, dates)]

InitLiveFilter ==
    /\ page = "live_filter" /\ pc = "rendered"
    /\ \E df \in LiveDatasets :
          live_filter = LiveFilterPass(df, {}, {}, {}, [kind |-> "tuple", dates |-> <<>>])
    /\ OthersIdle("live_filter")

SelectLiveArea ==
    /\ Frame("live_filter") /\ UNCHANGED pc
    /\ \E sel \in SUBSET ColumnOptions(live_filter.df, "Area") :
          live_filter' = LiveFilterPass(live_filter.df, sel, live_filter.selected_main,
                                        live_filter.selected_assigned, live_filter.selected_dates)

SelectLiveMainCase ==
    /\ Frame("live_filter") /\ UNCHANGED pc
    /\ \E sel \in SUBSET ColumnOptions(live_filter.df, "MainCase") :
          live_filter' = LiveFilterPass(live_filter.df, live_filter.selected_area, sel,
                                        live_filter.selected_assigned, live_filter.selected_dates)

SelectLiveAssigned ==
    /\ Frame("live_filter") /\ UNCHANGED pc
    /\ \E sel \in SUBSET ColumnOptions(live_filter.df, "AssignedToName") :
          live_filter' = LiveFilterPass(live_filter.df, live_filter.selected_area,
                                        live_filter.selected_main, sel, live_filter.selected_dates)

PickCreatedDates ==
    /\ Frame("live_filter") /\ UNCHANGED pc
    /\ \E picked \in DateInputValues :
          live_filter' = LiveFilterPass(live_filter.df, live_filter.selected_area,
                                        live_filter.selected_main, live_filter.selected_assigned, picked)

NextLiveFilter == SelectLiveArea \/ SelectLiveMainCase \/ SelectLiveAssigned \/ PickCreatedDates

SpecLiveFilter == InitLiveFilter /\ [][NextLiveFilter]_vars

(***************************************************************************)
(* Properties of the Live Ops filters                                      *)
(***************************************************************************)
\* a row passes a selection filter when nothing is selected or its value is
\* one of the selected ones
PassesSelection(r, col, selected) ==
    selected = {} \/ (r[col] # None /\ Val(r[col]) \in selected)

PassesSelections(r) ==
    /\ PassesSelection(r, "Area", live_filter.selected_area)
    /\ PassesSelection(r, "MainCase", live_filter.selected_main)
    /\ PassesSelection(r, "AssignedToName", live_filter.selected_assigned)

\* a row passes the date filter when fewer than two dates are picked or its
\* Created Date lies between them
PassesDates(r) ==
    Len(live_filter.selected_dates.dates) = 2 =>
        /\ r.CreatedDate # None
        /\ Val(r.CreatedDate) >= live_filter.selected_dates.dates[1]
        /\ Val(r.CreatedDate) <= live_filter.selected_dates.dates[2]

\* C26: the rendered Live Ops dataset is exactly the rows that satisfy every
\* active filter: the Area, Main Case and Assigned To Name selections, and the
\* Created Date range when both a start and an end date are picked; an empty
\* selection does not restrict.
C26_RenderedSatisfiesAllFilters ==
    page = "live_filter" =>
        live_filter.df_f = SelectSeq(live_filter.df, LAMBDA r : PassesSelections(r) /\ PassesDates(r))

\* both dates are picked and a rendered row lies outside the range
C26_Witness ==
    /\ page = "live_filter"
    /\ Len(live_filter.selected_dates.dates) = 2
    /\ \E i \in 1..Len(live_filter.df_f) : ~PassesDates(live_filter.df_f[i])

\* the rendered dataset is exactly the rows passing the three selections,
\* whatever dates are picked
RenderedSatisfiesSelections ==
    page = "live_filter" =>
        live_filter.df_f = SelectSeq(live_filter.df, PassesSelections)

(***************************************************************************)
(* HeatData: fetch_heat_data under @st.cache_data(ttl=3600).  The memo     *)
(* maps the arguments of a call to the value the call returned and the     *)
(* time it was stored; an entry is served while it is younger than the     *)
(* ttl.  Times are seconds.  heat_memo is a record: memo, now, data (the   *)
(* session cache), failed_at (per arguments, when the export API last      *)
(* failed) and call (what the last Fetch Data click did).                  *)
(***************************************************************************)
CACHE_TTL == 3600

\* the instants at which the operator acts
ClockTimes == {0, 1800, 3600, 5400}

\* (api_token, start_date_str, end_date_str) of a call
FetchKeys == { <<"token1", 360, 367>>, <<"token1", 1, 2>>, <<"token2", 360, 367>> }

\* how the export API can answer a request of this page
MemoReplies ==
    { r \in HeatReplies : r.kind \in {"status_not_200", "timeout", "connection_error"}
                          \/ (r.kind = "ok" /\ r.df = "fetched1") }

\* the body of fetch_heat_data: None for a status other than 200, a timeout
\* and any other exception, the frame otherwise
fetch_heat_data_body(reply) ==
    IF reply.kind \in {"status_not_200", "timeout", "connection_error"} THEN None
    ELSE Some(reply)

\* st.cache_data: the entry of these arguments, when it is younger than the ttl
MemoHit(h, key) ==
    h.memo[key] # None /\ h.now - Val(h.memo[key]).at < CACHE_TTL

\* st.cache_data stores whatever the call returned, None included
Store(h, key, returned) ==
    [h.memo EXCEPT ![key] = Some([value |-> returned, at |-> h.now])]

\* fetch_heat_data as the page calls it: through the memo
fetch_heat_data(h, key, reply) ==
    IF MemoHit(h, key)
    THEN [memo |-> h.memo, returned |-> Val(h.memo[key]).value, requested |-> FALSE]
    ELSE LET returned == fetch_heat_data_body(reply)
         IN  [memo |-> Store(h, key, returned), returned |-> returned, requested |-> TRUE]

\* the Fetch Data handler
HeatFetchHandler(h, key, reply) ==
    LET fetched == fetch_heat_data(h, key, reply)
        raw_df == fetched.returned
        processed == IF raw_df = None \/ Val(raw_df).kind = "empty" THEN None
                     ELSE process_data(Val(raw_df))
    IN  [memo |-> fetched.memo,
         now |-> h.now,
         data |-> IF processed # None THEN processed ELSE h.data,
         failed_at |-> IF fetched.requested /\ fetched.returned = None
                       THEN [h.failed_at EXCEPT ![key] = Some(h.now)]
                       ELSE h.failed_at,
         call |-> Some([key |-> key, requested |-> fetched.requested,
                        returned |-> fetched.returned])]

InitHeatMemo ==
    /\ page = "heat_memo" /\ pc = "rendered"
    /\ heat_memo = [memo |-> [k \in FetchKeys |-> None], now |-> 0, data |-> None,
                    failed_at |-> [k \in FetchKeys |-> None], call |-> None]
    /\ OthersIdle("heat_memo")

\* the operator clicks Fetch Data with a token and a valid range
HeatMemoFetch ==
    /\ Frame("heat_memo") /\ UNCHANGED pc
    /\ \E key \in FetchKeys, reply \in MemoReplies :
          heat_memo' = HeatFetchHandler(heat_memo, key, reply)

\* time passes; entries that reached the ttl are never served again
HeatMemoTick ==
    /\ Frame("heat_memo") /\ UNCHANGED pc
    /\ \E t \in ClockTimes :
          /\ t > heat_memo.now
          /\ \A u \in ClockTimes : u > heat_memo.now => t <= u
          /\ heat_memo' = [heat_memo EXCEPT
                !.now = t,
                !.memo = [k \in FetchKeys |->
                             IF heat_memo.memo[k] # None /\ t - Val(heat_memo.memo[k]).at >= CACHE_TTL
                             THEN None ELSE heat_memo.memo[k]]]

NextHeatMemo == HeatMemoFetch \/ HeatMemoTick

SpecHeatMemo == InitHeatMemo /\ [][NextHeatMemo]_vars

(***************************************************************************)
(* Properties of the fetch memo                                            *)
(***************************************************************************)
\* the export API failed for these arguments less than an hour ago
FailedWithinHour(h, key) ==
    h.failed_at[key] # None /\ h.now - Val(h.failed_at[key]) < CACHE_TTL

\* a step in which Fetch Data was clicked for these arguments
FetchStep(key) ==
    /\ page = "heat_memo" /\ heat_memo'.now = heat_memo.now
    /\ heat_memo'.call # None /\ Val(heat_memo'.call).key = key

\* C27: after a failed HeatData fetch (status other than 200, timeout or
\* connection error), a fetch with the same token and range within one hour
\* sends a new request to the export API: the failure is not served from the
\* one-hour memo of fetch_heat_data.
C27_FailedFetchNotMemoised ==
    [][\A key \in FetchKeys :
          FetchStep(key) /\ FailedWithinHour(heat_memo, key) => Val(heat_memo'.call).requested]_vars

\* a Fetch Data click got the remembered None of a failure of less than an
\* hour ago, without a request
C27_Witness ==
    /\ page = "heat_memo" /\ heat_memo.call # None
    /\ ~Val(heat_memo.call).requested /\ Val(heat_memo.call).returned = None
    /\ FailedWithinHour(heat_memo, Val(heat_memo.call).key)
    /\ heat_memo.now > 0

\* a fetch sends a request when the export API last failed for its arguments
\* an hour ago or more, and no later fetch of them is remembered
RequestAfterTheHour ==
    [][\A key \in FetchKeys :
          (/\ FetchStep(key)
           /\ heat_memo.failed_at[key] # None
           /\ heat_memo.now - Val(heat_memo.failed_at[key]) >= CACHE_TTL
           /\ heat_memo.memo[key] = None)
          => Val(heat_memo'.call).requested]_vars

(***************************************************************************)
(* HeatData: the passes that st.rerun() requests.  Streamlit runs a        *)
(* requested re-run without waiting for the operator, so the pass of       *)
(* HeatRerun is weakly fair; the operator's actions are not.               *)
(***************************************************************************)
SpecHeatDataFair == InitHeatData /\ [][NextHeatData]_vars /\ WF_vars(HeatRerun)

\* a file that passes process_data sits in the uploader
ValidFileInUploader ==
    /\ page = "heatdata" /\ heatdata.source_type = "upload"
    /\ heatdata.uploaded_file # None /\ Val(heatdata.uploaded_file).kind = "good"

\* C28: in File Upload mode, once a valid file is chosen the page eventually
\* completes a pass that reaches the main dashboard: the re-runs the upload
\* handler requests stop after finitely many passes while the file stays in
\* the uploader.
C28_UploadReachesDashboard ==
    ValidFileInUploader ~> (ValidFileInUploader /\ heatdata.view = "dashboard")
                           \/ ~ValidFileInUploader

\* a pass started by st.rerun() found the valid file still in the uploader
\* and ended in st.rerun() itself
C28_Witness ==
    /\ ValidFileInUploader
    /\ heatdata.event = "rerun" /\ heatdata.rerun /\ heatdata.view = "rerun"
    /\ heatdata.data # None

\* every pass with a valid file in the uploader ends in st.rerun() before the
\* main dashboard
ValidUploadAlwaysReruns ==
    ValidFileInUploader => heatdata.rerun /\ heatdata.view = "rerun"

(***************************************************************************)
(* Attendance: the derived columns of one record.  The four hour columns   *)
(* are hundredths of an hour (after to_numeric and fillna(0)), the derived *)
(* columns hundredths of a minute.                                         *)
(***************************************************************************)
CheckInDifferenceHours == {-100, -26, -25, 0, 50}
CheckOutDifferenceHours == {-50, 0, 25, 100}
PermissionHours == {0, 25, 100}

calculate_base_check_out_diff(hours_diff) ==
    IF hours_diff < 0 THEN 0 ELSE hours_diff * 60

\* Total Permission counting the check-in permission only
TotalPermissionCheckInOnly(row) == row.CheckInPermissionHours * 60

\* Total Permission = Total Check In Permission + Total Check Out Permission
TotalPermission(row) ==
    LET checkout_permission_minutes == row.CheckOutPermissionHours * 60
    IN  row.CheckInPermissionHours * 60 + checkout_permission_minutes

DerivedColumns(row) ==
    LET total_check_in_difference == calculate_check_in_diff(row.CheckInDifferenceHours)
        base_checkout_diff == calculate_base_check_out_diff(row.CheckOutDifferenceHours)
        checkout_permission_minutes == row.CheckOutPermissionHours * 60
        total_check_out_difference == base_checkout_diff + checkout_permission_minutes
        total_difference == total_check_in_difference + total_check_out_difference
    IN  [TotalCheckInDifference |-> total_check_in_difference,
         TotalCheckOutDifference |-> total_check_out_difference,
         TotalDifference |-> total_difference,
         TotalPermission |-> TotalPermission(row),
         TotalTime |-> total_difference - TotalPermission(row)]

InitTotalTime ==
    /\ page = "total_time" /\ pc = "call"
    /\ \E ci \in CheckInDifferenceHours, co \in CheckOutDifferenceHours,
          cip \in PermissionHours, cop \in PermissionHours :
          attendance_row = [row |-> [CheckInDifferenceHours |-> ci, CheckOutDifferenceHours |-> co,
                                     CheckInPermissionHours |-> cip, CheckOutPermissionHours |-> cop],
                            derived |-> None]
    /\ OthersIdle("total_time")

ComputeDerivedColumns ==
    /\ Frame("total_time")
    /\ pc = "call"
    /\ attendance_row' = [attendance_row EXCEPT !.derived = Some(DerivedColumns(attendance_row.row))]
    /\ pc' = "return"

NextTotalTime == ComputeDerivedColumns

SpecTotalTime == InitTotalTime /\ [][NextTotalTime]_vars

(***************************************************************************)
(* Properties of the derived attendance columns                            *)
(***************************************************************************)
\* minutes late beyond the grace period, in hundredths of a minute
LateMinutes(hours) == IF hours < 0 /\ -hours * 60 > 1500 THEN -hours * 60 ELSE 0

\* C29: Total Time (minutes) is Total Check In Difference plus the
\* early-departure minutes (Check-out Difference Hours x 60 when that is 0 or
\* more, else 0) minus Check-in Permission Hours x 60; the check-out
\* permission minutes are added into Total Difference and subtracted again
\* through Total Permission, so Total Time does not depend on Check-out
\* Permission Hours.
C29_TotalTime ==
    page = "total_time" /\ attendance_row.derived # None =>
        LET row == attendance_row.row
            derived == Val(attendance_row.derived)
            early == IF row.CheckOutDifferenceHours >= 0 THEN row.CheckOutDifferenceHours * 60 ELSE 0
        IN  /\ derived.TotalCheckInDifference = LateMinutes(row.CheckInDifferenceHours)
            /\ derived.TotalTime = derived.TotalCheckInDifference + early - row.CheckInPermissionHours * 60
            /\ derived.TotalDifference = derived.TotalCheckInDifference + early + row.CheckOutPermissionHours * 60
            /\ derived.TotalPermission = (row.CheckInPermissionHours + row.CheckOutPermissionHours) * 60
            /\ \A cop \in PermissionHours :
                  DerivedColumns([row EXCEPT !.CheckOutPermissionHours = cop]).TotalTime = derived.TotalTime

\* a late record leaving early with both permissions: 60 + 15 - 15 minutes
C29_Witness ==
    /\ page = "total_time" /\ attendance_row.derived # None
    /\ attendance_row.row = [CheckInDifferenceHours |-> -100, CheckOutDifferenceHours |-> 25,
                             CheckInPermissionHours |-> 25, CheckOutPermissionHours |-> 100]
    /\ Val(attendance_row.derived).TotalTime = 6000
    /\ Val(attendance_row.derived).TotalDifference = 13500

(***************************************************************************)
(* HeatData: what the session cache can hold                               *)
(***************************************************************************)
\* the tables process_data accepts: the datasets of the export API and the
\* files with the required columns and a parseable start date
ValidatedTables ==
    ApiDatasets \cup { u.name : u \in { f \in UploadFiles : f.kind = "good" } }

\* C30: on the HeatData page the session-cached dataset is either absent or
\* a table that passed process_data; no fetch, upload or clear action stores
\* a table that process_data rejected or never saw.
C30_CacheHoldsProcessedTable ==
    page = "heatdata" =>
        \/ heatdata.data = None
        \/ Val(heatdata.data) \in ValidatedTables

\* a file without the required columns was dropped in the uploader while the
\* cache held a fetched dataset, and the cache still holds that dataset
C30_Witness ==
    /\ page = "heatdata" /\ heatdata.event = "upload"
    /\ heatdata.uploaded_file # None /\ Val(heatdata.uploaded_file).kind = "missing_columns"
    /\ heatdata.data # None /\ Val(heatdata.data) \in ApiDatasets

====
